---- MODULE Spec2Model ----
(***************************************************************************)
(* Model of the streaming section parser (TagParser) of                    *)
(* python-core/app/services/llm.py, of the generation session built on it  *)
(* (generate_stream, generate_with_thinking, the /chat event stream of     *)
(* python-core/app/api.py and the chat loop of python-core/cli.py) and of  *)
(* the query classifier of python-core/app/services/router.py.  Text is    *)
(* modelled by TLA+ strings, on which TLC evaluates Len, SubSeq and \o     *)
(* character by character.                                                 *)
(***************************************************************************)
EXTENDS Integers, Sequences, FiniteSets, TLC

VARIABLES
    source,              \* the upstream stream: the sequence of chunks the provider yields
    idx,                 \* index in source of the chunk being delivered
    off,                 \* characters of source[idx] already delivered
    state,               \* TagParser.state
    buffer,              \* TagParser.buffer
    current_content,     \* TagParser.current_content
    has_yielded_answer,  \* TagParser.has_yielded_answer
    returned,            \* the list returned by the last process_chunk or flush call
    emitted,             \* the contents of every event so far, concatenated in order
    thinking_content,    \* the contents of the thinking events so far, concatenated
    answer_content,      \* the contents of the answer events so far, concatenated
    flushes,             \* number of flush() calls so far
    trace,               \* the values TagParser.state has taken, in order
    cut,                 \* characters the last call's no-tag branch removed from the buffer
    section_start,       \* characters of the stream up to the end of the last tag matched
    looping,             \* TRUE when a process_chunk loop did not exit within its budget
    caller,              \* who runs the session: "api" (/chat), "cli" (chat_loop), "" (none)
    query_type,          \* the query type classify_query returned ("" before it returns)
    include_thinking,    \* the include_thinking flag of the session
    effective_use_thinking, \* api.py: TRUE when /chat generates with generate_with_thinking
    upstream,            \* the deltas the provider's response yields, in order
    fails,               \* TRUE when the provider raises once these deltas are yielded
    chunk_no,            \* index of the next chunk dict generate_stream yields
    pc,                  \* the step the session (or the classifier) is at
    full_response,       \* generate_with_thinking's full_response
    chat_full_response,  \* full_response of event_stream in api.py
    sink,                \* the events generate_with_thinking has yielded, in order
    origin,              \* for each character of buffer, the delta it arrived in
    parsed_thinking,     \* contents of the thinking events the parser returned, concatenated
    sse,                 \* the SSE events event_stream has yielded, in order
    messages_saved,      \* the db.add_message calls that succeeded, in order
    answer_to_store,     \* answer_to_store of event_stream in api.py
    memories,            \* the texts memory.add_memory stored, in order
    completion_calls,    \* litellm.acompletion calls of generate_stream
    outcome,             \* what the classifier's litellm.acompletion call comes to
    escaped,             \* TRUE when an exception left classify_query
    request_mode,        \* request.mode of the /chat request ("" outside a request)
    request_model,       \* request.model: <<>> for None, <<name>> for a name
    req_include_thinking, \* request.include_thinking: <<>> for None, <<b>> for b
    tier,                \* the key of MODEL_TIERS that chat picked for base_model
    model,               \* the model chat generates with
    memory_searches,     \* memory.search_memory calls of the request
    reading,             \* TRUE while the client reads the event stream
    parsers,             \* the TagParser objects created, in order of creation
    sessions,            \* the concurrent generate_with_thinking calls, by session
    raw_text,            \* the argument of a _clean_tag_artifacts call
    clean_text,          \* what the call returned
    conversations,       \* the rows of table conversations (their ids)
    messages,            \* the rows of table messages, in order of insertion
    foreign_keys,        \* TRUE when the SQLite build enforces foreign keys by default
    next_id,             \* the number of ids handed out so far
    db_call,             \* the last call made on the database service
    api_keys,            \* api.py: the api_keys dict, its items in insertion order
    environ,             \* os.environ: the API key variables of the process
    conversation_id,     \* request.conversation_id of the /chat request (0: none)
    api_key              \* api_key of chat, step 3: <<>> for None, <<k>> for key k

\* The variables of the generation session and of the classifier.
chat_vars == <<caller, query_type, include_thinking, effective_use_thinking,
               upstream, fails, chunk_no, pc, full_response, chat_full_response,
               sink, origin, parsed_thinking, sse, messages_saved,
               answer_to_store, memories,
               completion_calls, outcome, escaped, request_mode, request_model,
               req_include_thinking, tier, model, memory_searches, reading,
               parsers, sessions, raw_text, clean_text, conversations, messages,
               foreign_keys, next_id, db_call, api_keys, environ,
               conversation_id, api_key>>

vars == <<source, idx, off, state, buffer, current_content, has_yielded_answer,
          returned, emitted, thinking_content, answer_content, flushes,
          trace, cut, section_start, looping, chat_vars>>

-----------------------------------------------------------------------------
(* Bounds of the model. *)

\* Pieces concatenated to build an upstream text.
MaxPieces == 3
\* flush() calls made on one parser.
MaxFlushes == 2

-----------------------------------------------------------------------------
(* Python str operations. *)

Min(S) == CHOOSE x \in S : \A y \in S : x <= y
Max(S) == CHOOSE x \in S : \A y \in S : x >= y

\* s[i] (0-based) as a one-character string.
CharAt(s, i) == SubSeq(s, i + 1, i + 1)

\* s[:n] for 0 <= n.
Take(s, n) == IF n >= Len(s) THEN s ELSE SubSeq(s, 1, n)

\* s[n:] for 0 <= n.
Drop(s, n) == IF n >= Len(s) THEN "" ELSE SubSeq(s, n + 1, Len(s))

\* s[-k:] for k > 0.
LastChars(s, k) == IF k >= Len(s) THEN s ELSE SubSeq(s, Len(s) - k + 1, Len(s))

\* s[:-k] for k > 0.
DropLast(s, k) == IF k >= Len(s) THEN "" ELSE SubSeq(s, 1, Len(s) - k)

\* s.startswith(p)
StartsWith(s, p) == Len(p) <= Len(s) /\ SubSeq(s, 1, Len(p)) = p

\* s.endswith(p)
EndsWith(s, p) == Len(p) <= Len(s) /\ LastChars(s, Len(p)) = p

\* s.find(t, i): the lowest 0-based index of t in s from index i on, -1 when absent.
RECURSIVE FindFrom(_, _, _)
FindFrom(s, t, i) ==
    IF i + Len(t) > Len(s) THEN -1
    ELSE IF SubSeq(s, i + 1, i + Len(t)) = t THEN i
    ELSE FindFrom(s, t, i + 1)

\* s.find(t)
Find(s, t) == FindFrom(s, t, 0)

Whitespace == {" ", "\t", "\n", "\r", "\f"}

\* s.lstrip()
RECURSIVE LStrip(_)
LStrip(s) ==
    IF s # "" /\ CharAt(s, 0) \in Whitespace THEN LStrip(Drop(s, 1)) ELSE s

\* s.rstrip()
RECURSIVE RStrip(_)
RStrip(s) ==
    IF s # "" /\ LastChars(s, 1) \in Whitespace THEN RStrip(DropLast(s, 1)) ELSE s

\* s.strip()
Strip(s) == RStrip(LStrip(s))

\* The lower-case form of each upper-case letter.
LowerCase ==
    [c \in {"A","B","C","D","E","F","G","H","I","J","K","L","M",
             "N","O","P","Q","R","S","T","U","V","W","X","Y","Z"} |->
        CASE c = "A" -> "a" [] c = "B" -> "b" [] c = "C" -> "c" [] c = "D" -> "d"
          [] c = "E" -> "e" [] c = "F" -> "f" [] c = "G" -> "g" [] c = "H" -> "h"
          [] c = "I" -> "i" [] c = "J" -> "j" [] c = "K" -> "k" [] c = "L" -> "l"
          [] c = "M" -> "m" [] c = "N" -> "n" [] c = "O" -> "o" [] c = "P" -> "p"
          [] c = "Q" -> "q" [] c = "R" -> "r" [] c = "S" -> "s" [] c = "T" -> "t"
          [] c = "U" -> "u" [] c = "V" -> "v" [] c = "W" -> "w" [] c = "X" -> "x"
          [] c = "Y" -> "y" [] c = "Z" -> "z"]

LowerChar(c) == IF c \in DOMAIN LowerCase THEN LowerCase[c] ELSE c

\* s.lower()
RECURSIVE Lower(_)
Lower(s) == IF s = "" THEN "" ELSE LowerChar(CharAt(s, 0)) \o Lower(Drop(s, 1))

-----------------------------------------------------------------------------
(* TagParser.__init__: the tag definitions. *)

THINKING_OPEN_VARIANTS == <<"<thinking>", "<think>">>
THINKING_CLOSE_VARIANTS == <<"</thinking>", "</think>">>
ANSWER_OPEN == "<answer>"
ANSWER_CLOSE == "</answer>"

\* MAX_TAG_LEN taken as the shortest tag instead of the longest.
MAX_TAG_LEN_Shortest ==
    Min({Len(ANSWER_OPEN), Len(ANSWER_CLOSE)}
        \cup {Len(THINKING_OPEN_VARIANTS[i]) : i \in 1..Len(THINKING_OPEN_VARIANTS)}
        \cup {Len(THINKING_CLOSE_VARIANTS[i]) : i \in 1..Len(THINKING_CLOSE_VARIANTS)})

MAX_TAG_LEN ==
    Max({Len(ANSWER_OPEN), Len(ANSWER_CLOSE)}
        \cup {Len(THINKING_OPEN_VARIANTS[i]) : i \in 1..Len(THINKING_OPEN_VARIANTS)}
        \cup {Len(THINKING_CLOSE_VARIANTS[i]) : i \in 1..Len(THINKING_CLOSE_VARIANTS)})

Event(section, content) == [section |-> section, content |-> content]

\* The earliest of the positions pos[i] of the tags tags[i] (-1: absent)
\* and the tag there; [pos |-> -1] when none occurs.  The scan keeps the
\* first variant on equal positions (pos < thinking_start).
EarliestOf(tags, pos) ==
    LET hits == {i \in 1..Len(tags) : pos[i] # -1}
        best == CHOOSE i \in hits :
                    \A j \in hits : pos[i] < pos[j] \/ (pos[i] = pos[j] /\ i <= j)
    IN  IF hits = {} THEN [pos |-> -1, tag |-> ""]
        ELSE [pos |-> pos[best], tag |-> tags[best]]

\* The earliest occurrence in buf of any tag of the sequence tags.
EarliestTag(buf, tags) ==
    EarliestOf(tags, [i \in 1..Len(tags) |-> Find(buf, tags[i])])

\* could_be_tag that holds whenever some end of buffer_end is the start of
\* an opening tag.
CouldBeOpening_AnyEnd(buffer_end) ==
    \E k \in 1..Len(buffer_end) :
        \/ StartsWith(ANSWER_OPEN, LastChars(buffer_end, k))
        \/ \E i \in 1..Len(THINKING_OPEN_VARIANTS) :
               StartsWith(THINKING_OPEN_VARIANTS[i], LastChars(buffer_end, k))

\* could_be_tag in state outside: the last MAX_TAG_LEN characters of the
\* buffer are the start of an opening tag.
CouldBeOpening(buffer_end) ==
    \/ StartsWith(ANSWER_OPEN, buffer_end)
    \/ \E i \in 1..Len(THINKING_OPEN_VARIANTS) :
           StartsWith(THINKING_OPEN_VARIANTS[i], buffer_end)

\* could_be_closing in state in_thinking.
CouldBeThinkingClose(buffer_end) ==
    \E i \in 1..Len(THINKING_CLOSE_VARIANTS) :
        StartsWith(THINKING_CLOSE_VARIANTS[i], buffer_end)

\* max_close_len in state in_thinking.
MaxCloseLen ==
    Max({Len(THINKING_CLOSE_VARIANTS[i]) : i \in 1..Len(THINKING_CLOSE_VARIANTS)})

\* A parser together with what one process_chunk call has produced so far:
\* results is the list it will return, visited the states it has switched
\* to, rest the length of the buffer after the last tag it stripped, cut the
\* characters its last pass took off the buffer without finding a tag,
\* made_progress the flag of its last pass.
Run(st, buf, hya, results, visited, removed, progress) ==
    [state |-> st, buffer |-> buf, has_yielded_answer |-> hya, results |-> results,
     visited |-> visited, rest |-> 0, cut |-> removed, made_progress |-> progress]

\* Emit that sets has_yielded_answer on an event of any section.
Emit_AnySection(r, emits, section, content) ==
    [r EXCEPT !.results = IF emits THEN Append(@, Event(section, content)) ELSE @,
              !.has_yielded_answer = @ \/ emits]

\* results.append({"section": section, "content": content}) when emits holds;
\* an answer event sets has_yielded_answer.
Emit(r, emits, section, content) ==
    [r EXCEPT !.results = IF emits THEN Append(@, Event(section, content)) ELSE @,
              !.has_yielded_answer = @ \/ (emits /\ section = "answer")]

\* OpeningTag that neither strips the tag from the buffer nor switches state.
OpeningTag_Stuck(r, start, tag, next, pre_content) ==
    [Emit(r, start > 0 /\ pre_content # "", "answer", pre_content)
        EXCEPT !.cut = 0,
               !.made_progress = TRUE]

\* State outside, an opening tag found at start: the stripped content before
\* it is emitted as answer, the tag is stripped and the state switches.
OpeningTag(r, start, tag, next, pre_content) ==
    [Emit(r, start > 0 /\ pre_content # "", "answer", pre_content)
        EXCEPT !.state = next,
               !.buffer = Drop(r.buffer, start + Len(tag)),
               !.visited = Append(@, next),
               !.rest = Len(r.buffer) - (start + Len(tag)),
               !.cut = 0,
               !.made_progress = TRUE]

\* ClosingTag that strips the content before the closing tag, as the
\* opening tags do with the content before them.
ClosingTag_Stripped(r, end, tag, section) ==
    [Emit(r, Strip(Take(r.buffer, end)) # "", section, Strip(Take(r.buffer, end)))
        EXCEPT !.state = "outside",
               !.buffer = Drop(r.buffer, end + Len(tag)),
               !.visited = Append(@, "outside"),
               !.rest = Len(r.buffer) - (end + Len(tag)),
               !.cut = 0,
               !.made_progress = TRUE]

\* States in_thinking and in_answer, the closing tag found at end: the
\* content before it is emitted, the tag is stripped, the state is outside.
ClosingTag(r, end, tag, section) ==
    [Emit(r, end > 0, section, Take(r.buffer, end))
        EXCEPT !.state = "outside",
               !.buffer = Drop(r.buffer, end + Len(tag)),
               !.visited = Append(@, "outside"),
               !.rest = Len(r.buffer) - (end + Len(tag)),
               !.cut = 0,
               !.made_progress = TRUE]

\* No complete tag and safe_to_yield_len > 0, the buffer end not the start of
\* a tag: content_to_yield is emitted if emits holds and cut off the buffer
\* whether it is emitted or not.
YieldSafe(r, section, content_to_yield, emits) ==
    [Emit(r, emits, section, content_to_yield)
        EXCEPT !.buffer = Drop(r.buffer, Len(content_to_yield)),
               !.cut = Len(content_to_yield),
               !.made_progress = FALSE]

\* NoTagFound that keeps no safety margin: the whole buffer is yielded.
NoTagFound_Eager(r, margin, could_be_tag, section, stripped) ==
    IF Len(r.buffer) > 0
    THEN YieldSafe(r, section, r.buffer,
                   IF stripped THEN Strip(r.buffer) # "" ELSE TRUE)
    ELSE [r EXCEPT !.cut = 0, !.made_progress = FALSE]

\* The three branches that find no complete tag, with margin the safety
\* margin of the state and section its section.  In state outside (stripped)
\* a blank content_to_yield is not emitted, in the other two states only an
\* empty one is not.
NoTagFound(r, margin, could_be_tag, section, stripped) ==
    IF Len(r.buffer) - margin > 0 /\ ~could_be_tag
    THEN YieldSafe(r, section, Take(r.buffer, Len(r.buffer) - margin),
                   IF stripped
                   THEN Strip(Take(r.buffer, Len(r.buffer) - margin)) # ""
                   ELSE TRUE)
    ELSE [r EXCEPT !.cut = 0, !.made_progress = FALSE]

\* State outside, with thinking the earliest thinking-open variant and
\* answer_start the position of <answer>.
Outside(r, thinking, answer_start) ==
    IF thinking.pos # -1 /\ (answer_start = -1 \/ thinking.pos < answer_start)
    THEN OpeningTag(r, thinking.pos, thinking.tag, "in_thinking",
                    Strip(Take(r.buffer, thinking.pos)))
    ELSE IF answer_start # -1
    THEN OpeningTag(r, answer_start, ANSWER_OPEN, "in_answer",
                    Strip(Take(r.buffer, answer_start)))
    ELSE NoTagFound(r, MAX_TAG_LEN,
                    CouldBeOpening(LastChars(r.buffer, MAX_TAG_LEN)), "answer", TRUE)

\* State in_thinking, with closing the earliest thinking-close variant.
InThinking(r, closing) ==
    IF closing.pos # -1
    THEN ClosingTag(r, closing.pos, closing.tag, "thinking")
    ELSE NoTagFound(r, MaxCloseLen,
                    CouldBeThinkingClose(LastChars(r.buffer, MaxCloseLen)),
                    "thinking", FALSE)

\* State in_answer, with answer_end the position of </answer>.
InAnswer(r, answer_end) ==
    IF answer_end # -1
    THEN ClosingTag(r, answer_end, ANSWER_CLOSE, "answer")
    ELSE NoTagFound(r, Len(ANSWER_CLOSE),
                    StartsWith(ANSWER_CLOSE, LastChars(r.buffer, Len(ANSWER_CLOSE))),
                    "answer", FALSE)

\* One pass of the while loop of process_chunk.
Iterate(r) ==
    CASE r.state = "outside" ->
             Outside(r, EarliestTag(r.buffer, THINKING_OPEN_VARIANTS),
                     Find(r.buffer, ANSWER_OPEN))
      [] r.state = "in_thinking" ->
             InThinking(r, EarliestTag(r.buffer, THINKING_CLOSE_VARIANTS))
      [] r.state = "in_answer" ->
             InAnswer(r, Find(r.buffer, ANSWER_CLOSE))

\* The while True loop of process_chunk after a pass that left q: it exits
\* when the pass made no progress.  budget bounds the passes the model
\* follows; a loop that has not exited when it runs out is reported by
\* made_progress, which is FALSE on every exit of the loop.
RECURSIVE Loop(_, _)
Loop(q, budget) ==
    IF ~q.made_progress \/ budget = 0 THEN q
    ELSE Loop(Iterate(q), budget - 1)

\* TagParser.process_chunk on the parser (st, buf, hya).
process_chunk(st, buf, hya, chunk) ==
    IF chunk = ""
    THEN Run(st, buf, hya, <<>>, <<>>, 0, FALSE)
    ELSE Loop(Iterate(Run(st, buf \o chunk, hya, <<>>, <<>>, 0, FALSE)),
              Len(buf) + Len(chunk))

-----------------------------------------------------------------------------
(* TagParser._clean_tag_artifacts *)

tag_artifacts ==
    <<"</answer>", "</thinking>", "<answer>", "<thinking>",
      "</answer", "</thinking", "<answer", "<thinking", "ANSWER", "THINKING">>

\* while cleaned.lower().startswith(artifact.lower()):
\*     cleaned = cleaned[len(artifact):].strip()
RECURSIVE RemoveFromStart(_, _)
RemoveFromStart(cleaned, artifact) ==
    IF Lower(Take(cleaned, Len(artifact))) = Lower(artifact)
    THEN RemoveFromStart(Strip(Drop(cleaned, Len(artifact))), artifact)
    ELSE cleaned

\* while cleaned.lower().endswith(artifact.lower()):
\*     cleaned = cleaned[:-len(artifact)].strip()
RECURSIVE RemoveFromEnd(_, _)
RemoveFromEnd(cleaned, artifact) ==
    IF Lower(LastChars(cleaned, Len(artifact))) = Lower(artifact)
    THEN RemoveFromEnd(Strip(DropLast(cleaned, Len(artifact))), artifact)
    ELSE cleaned

\* for artifact in tag_artifacts, from the i-th on.
RECURSIVE RemoveArtifacts(_, _)
RemoveArtifacts(cleaned, i) ==
    IF i > Len(tag_artifacts) THEN cleaned
    ELSE RemoveArtifacts(
             RemoveFromEnd(RemoveFromStart(cleaned, tag_artifacts[i]), tag_artifacts[i]),
             i + 1)

\* The strings the pattern </?(?:answer|thinking)> matches, in lower case.
TagPattern == {"<answer>", "</answer>", "<thinking>", "</thinking>"}

\* re.sub(r'</?(?:answer|thinking)>', '', text, flags=re.IGNORECASE): the
\* matches are removed from left to right, the scan resuming after each.
RECURSIVE RemoveTagPatterns(_)
RemoveTagPatterns(text) ==
    IF text = "" THEN ""
    ELSE LET hit == {t \in TagPattern : StartsWith(Lower(Take(text, Len(t))), t)}
         IN  IF CharAt(text, 0) = "<" /\ hit # {}
             THEN RemoveTagPatterns(Drop(text, Len(CHOOSE t \in hit : TRUE)))
             ELSE CharAt(text, 0) \o RemoveTagPatterns(Drop(text, 1))

clean_tag_artifacts(text) ==
    IF text = "" THEN ""
    ELSE Strip(RemoveTagPatterns(RemoveArtifacts(Strip(text), 1)))

-----------------------------------------------------------------------------
(* TagParser.flush: the events it returns from the parser (st, buf, cc, hya). *)

\* if cleaned: results.append({"section": section, "content": cleaned})
FlushEvent(section, cleaned) ==
    IF cleaned # "" THEN <<Event(section, cleaned)>> ELSE <<>>

\* if remaining: cleaned = self._clean_tag_artifacts(remaining) ...
FlushRemaining(section, remaining) ==
    IF remaining # "" THEN FlushEvent(section, clean_tag_artifacts(remaining)) ELSE <<>>

\* flush without the rescue: an unterminated thinking section is always
\* returned as thinking.
flush_NoRescue(st, buf, cc, hya) ==
    IF st = "in_thinking" /\ (cc # "" \/ buf # "")
    THEN FlushRemaining("thinking", Strip(cc \o buf))
    ELSE IF st = "in_answer" /\ (cc # "" \/ buf # "")
    THEN FlushRemaining("answer", Strip(cc \o buf))
    ELSE IF buf # ""
    THEN FlushRemaining("answer", Strip(buf))
    ELSE <<>>

flush(st, buf, cc, hya) ==
    IF st = "in_thinking" /\ (cc # "" \/ buf # "")
    THEN FlushRemaining(IF ~hya THEN "answer" ELSE "thinking", Strip(cc \o buf))
    ELSE IF st = "in_answer" /\ (cc # "" \/ buf # "")
    THEN FlushRemaining("answer", Strip(cc \o buf))
    ELSE IF buf # ""
    THEN FlushRemaining("answer", Strip(buf))
    ELSE <<>>

-----------------------------------------------------------------------------
(* The upstream texts. *)

\* What an upstream text is built from: the six tags, a blank and a short
\* sentence longer than every tag.
Pieces ==
    {"<thinking>", "<think>", "</thinking>", "</think>", "<answer>", "</answer>",
     " ", "I am thinking"}

\* The texts of at most n pieces.
RECURSIVE PieceTexts(_)
PieceTexts(n) ==
    IF n = 0 THEN {""}
    ELSE LET shorter == PieceTexts(n - 1)
         IN  shorter \cup {t \o p : t \in shorter, p \in Pieces}

Texts == PieceTexts(MaxPieces)

\* The scenarios of the specification.
NormalText == "<thinking>plan</thinking><answer>42</answer>"
RescueText == "<thinking>partial reasoning, no closing tag"
SplitStream == <<"<thi", "nking>hi</thin", "king><answer>ok</answer>">>
UnsplitStream == <<"<thinking>hi</thinking><answer>ok</answer>">>

\* Every way of cutting text t into three non-empty consecutive chunks.
ThreeChunks(t) ==
    UNION {{<<SubSeq(t, 1, i), SubSeq(t, i + 1, j), SubSeq(t, j + 1, Len(t))>> :
               j \in (i + 1)..(Len(t) - 1)} : i \in 1..(Len(t) - 2)}

StreamSources ==
    ThreeChunks(NormalText) \cup {SplitStream, UnsplitStream, <<RescueText>>}

-----------------------------------------------------------------------------
(* The state machine: one parser fed the chunks of one stream, then flushed. *)

\* The text of the whole stream and the part of it delivered so far.
RECURSIVE Concat(_)
Concat(chunks) == IF chunks = <<>> THEN "" ELSE Head(chunks) \o Concat(Tail(chunks))

FullText == Concat(source)

Delivered ==
    IF idx > Len(source) THEN FullText
    ELSE Concat(SubSeq(source, 1, idx - 1)) \o Take(source[idx], off)

\* The contents of a list of events, concatenated in order.
RECURSIVE Contents(_)
Contents(evs) == IF evs = <<>> THEN "" ELSE Head(evs).content \o Contents(Tail(evs))

\* The events of section sec in a list of events.
OfSection(evs, sec) == SelectSeq(evs, LAMBDA e : e.section = sec)

\* TagParser.__init__ on a parser about to receive the stream src.
Fresh(src) ==
    /\ source = src
    /\ idx = 1
    /\ off = 0
    /\ state = "outside"
    /\ buffer = ""
    /\ current_content = ""
    /\ has_yielded_answer = FALSE
    /\ returned = <<>>
    /\ emitted = ""
    /\ thinking_content = ""
    /\ answer_content = ""
    /\ flushes = 0
    /\ trace = <<"outside">>
    /\ cut = 0
    /\ section_start = 0
    /\ looping = FALSE

\* No /chat request is being handled.
NoRequest ==
    /\ request_mode = ""
    /\ request_model = <<>>
    /\ req_include_thinking = <<>>
    /\ tier = ""
    /\ model = ""
    /\ memory_searches = 0
    /\ reading = TRUE
    /\ api_keys = <<>>
    /\ environ = [OPENAI_API_KEY |-> "", ANTHROPIC_API_KEY |-> "",
                  GOOGLE_API_KEY |-> ""]
    /\ conversation_id = 0
    /\ api_key = <<>>

\* No concurrent sessions.
NoPair ==
    /\ parsers = <<>>
    /\ sessions = <<>>

\* No _clean_tag_artifacts call on its own.
NoClean ==
    /\ raw_text = ""
    /\ clean_text = ""

\* No database in use.
NoDb ==
    /\ conversations = {}
    /\ messages = <<>>
    /\ foreign_keys = FALSE
    /\ next_id = 0
    /\ db_call = [op |-> "none", id |-> 0, ok |-> TRUE]

\* A parser used on its own: no generation session and no classification.
NoSession ==
    /\ NoRequest
    /\ NoPair
    /\ NoClean
    /\ NoDb
    /\ caller = ""
    /\ query_type = ""
    /\ include_thinking = TRUE
    /\ effective_use_thinking = TRUE
    /\ upstream = <<>>
    /\ fails = FALSE
    /\ chunk_no = 1
    /\ pc = "parser"
    /\ full_response = ""
    /\ chat_full_response = ""
    /\ sink = <<>>
    /\ origin = <<>>
    /\ parsed_thinking = ""
    /\ sse = <<>>
    /\ messages_saved = <<>>
    /\ answer_to_store = ""
    /\ memories = <<>>
    /\ completion_calls = 0
    /\ outcome = [kind |-> "none", content |-> ""]
    /\ escaped = FALSE

\* Each text arrives as one upstream chunk, which ProcessChunk may deliver
\* in pieces of any length; the empty text is the stream of no chunk.
Init == \E t \in Texts : Fresh(IF t = "" THEN <<>> ELSE <<t>>) /\ NoSession

\* The streams of the scenarios, each chunk of which is delivered whole.
InitStream == \E src \in StreamSources : Fresh(src) /\ NoSession

\* The consumer of the events a parser call returned: each event is
\* delivered in order and its content added to the text of its section.
Consume(evs) ==
    /\ returned' = evs
    /\ emitted' = emitted \o Contents(evs)
    /\ thinking_content' = thinking_content \o Contents(OfSection(evs, "thinking"))
    /\ answer_content' = answer_content \o Contents(OfSection(evs, "answer"))

\* The parser after a process_chunk call that left r with delivered
\* characters of the stream delivered, and the consumer after the events
\* the call returned.
Return(r, delivered) ==
    /\ state' = r.state
    /\ buffer' = r.buffer
    /\ has_yielded_answer' = r.has_yielded_answer
    /\ current_content' = IF r.visited # <<>> THEN "" ELSE current_content
    /\ Consume(r.results)
    /\ trace' = trace \o r.visited
    /\ cut' = r.cut
    /\ section_start' = IF r.visited # <<>> THEN delivered - r.rest ELSE section_start
    /\ looping' = r.made_progress

\* process_chunk(chunk) with chunk the next n undelivered characters of
\* source[idx], n > 0.
ProcessChunk(n) ==
    /\ flushes = 0
    /\ ~looping
    /\ idx <= Len(source)
    /\ n \in 1..(Len(source[idx]) - off)
    /\ Return(process_chunk(state, buffer, has_yielded_answer,
                            SubSeq(source[idx], off + 1, off + n)),
              Len(Delivered) + n)
    /\ IF off + n = Len(source[idx])
       THEN idx' = idx + 1 /\ off' = 0
       ELSE idx' = idx /\ off' = off + n
    /\ UNCHANGED <<source, flushes, chat_vars>>

\* process_chunk on the whole of the next upstream chunk.
ProcessWholeChunk ==
    /\ idx <= Len(source)
    /\ off = 0
    /\ ProcessChunk(Len(source[idx]))

\* Flush without the reset of the parser.
Flush_NoReset ==
    /\ idx > Len(source)
    /\ ~looping
    /\ flushes < MaxFlushes
    /\ Consume(flush(state, buffer, current_content, has_yielded_answer))
    /\ flushes' = flushes + 1
    /\ trace' = trace
    /\ cut' = 0
    /\ UNCHANGED <<source, idx, off, section_start, looping,
                   state, buffer, current_content, has_yielded_answer, chat_vars>>

\* flush() once the stream has ended; it may be called again.
Flush ==
    /\ idx > Len(source)
    /\ ~looping
    /\ flushes < MaxFlushes
    /\ Consume(flush(state, buffer, current_content, has_yielded_answer))
    /\ flushes' = flushes + 1
    /\ buffer' = ""
    /\ current_content' = ""
    /\ state' = "outside"
    /\ has_yielded_answer' = FALSE
    /\ trace' = IF state # "outside" THEN Append(trace, "outside") ELSE trace
    /\ cut' = 0
    /\ UNCHANGED <<source, idx, off, section_start, looping, chat_vars>>

\* Characters of the chunk being delivered that are still undelivered.
Undelivered == IF idx <= Len(source) THEN Len(source[idx]) - off ELSE 0

Next ==
    \/ \E n \in 1..Undelivered : ProcessChunk(n)
    \/ Flush

Spec == Init /\ [][Next]_vars

NextStream ==
    \/ ProcessWholeChunk
    \/ Flush

SpecStream == InitStream /\ [][NextStream]_vars

TypeOK ==
    /\ state \in {"outside", "in_thinking", "in_answer"}
    /\ has_yielded_answer \in BOOLEAN
    /\ current_content = ""
    /\ flushes \in 0..MaxFlushes
    /\ Len(emitted) = Len(thinking_content) + Len(answer_content)

-----------------------------------------------------------------------------
(* The session as the claims see it. *)

\* The tags process_chunk searches for in state st.
SearchedTags(st) ==
    CASE st = "outside" ->
             {THINKING_OPEN_VARIANTS[i] : i \in 1..Len(THINKING_OPEN_VARIANTS)}
             \cup {ANSWER_OPEN}
      [] st = "in_thinking" ->
             {THINKING_CLOSE_VARIANTS[i] : i \in 1..Len(THINKING_CLOSE_VARIANTS)}
      [] st = "in_answer" -> {ANSWER_CLOSE}

\* The raw text of the section the parser is in: what was delivered after
\* the last tag it matched.
SectionText == Drop(Delivered, section_start)

\* The contents, in order, of the events of feeding the parser that a
\* process_chunk call left in r a final flush().
WithFlush(r) ==
    Contents(r.results) \o Contents(flush(r.state, r.buffer, "", r.has_yielded_answer))

\* The reconstructed content of text t fed to a fresh parser as one single
\* chunk followed by flush().
SingleChunkContent(t) == WithFlush(process_chunk("outside", "", FALSE, t))

\* Every event of the list evs is one of the events of the set allowed.
EachIn(evs, allowed) == \A i \in 1..Len(evs) : evs[i] \in allowed

\* C1: the contents of all events of a session, concatenated in emission
\* order, are those of the same text fed as one single chunk and flushed,
\* however the text was cut into chunks.
C1_ChunkingKeepsContent ==
    flushes = 1 => emitted = SingleChunkContent(FullText)

\* C2: a thinking-open tag and text without closing tag, then the end of the
\* stream: flush() returns exactly one answer event, whose content is the
\* whole text after the opening tag.
C2_RescueWholeText ==
    (source = <<RescueText>> /\ flushes = 1)
        => returned = <<Event("answer", "partial reasoning, no closing tag")>>

\* C3: a process_chunk call that finds no complete tag and cuts its buffer
\* leaves at least K-1 characters in it, K the length of the longest tag
\* searched for in the state; and the delivered part of a searched tag that
\* a later chunk completes is still in the buffer, not in an event.
C3_BoundaryMargin ==
    flushes = 0 =>
        /\ cut > 0 => Len(buffer) >= Max({Len(t) : t \in SearchedTags(state)}) - 1
        /\ buffer = LastChars(Delivered, Len(buffer))
        /\ \A t \in SearchedTags(state) : \A k \in 1..(Len(t) - 1) :
               (/\ k <= Len(Delivered)
                /\ Len(Delivered) - k + Len(t) <= Len(FullText)
                /\ SubSeq(FullText, Len(Delivered) - k + 1, Len(Delivered) - k + Len(t)) = t)
                   => Len(buffer) >= k

\* A call has cut its buffer while the first characters of an opening tag,
\* completed by a later chunk, were at its end.
C3_Witness ==
    /\ flushes = 0
    /\ cut > 0
    /\ state = "outside"
    /\ \E k \in 1..(Len(ANSWER_OPEN) - 1) :
           /\ k <= Len(Delivered)
           /\ Len(Delivered) - k + Len(ANSWER_OPEN) <= Len(FullText)
           /\ SubSeq(FullText, Len(Delivered) - k + 1,
                     Len(Delivered) - k + Len(ANSWER_OPEN)) = ANSWER_OPEN

\* C4: the normal text delivered as three chunks: the events are exactly one
\* thinking event "plan" followed by exactly one answer event "42".  Events
\* are never empty, so this is: every call returns only those two events,
\* and the session ends with "plan" and "42" as the text of the sections.
C4_NormalThreeChunks ==
    source \in ThreeChunks(NormalText) =>
        /\ EachIn(returned, {Event("thinking", "plan"), Event("answer", "42")})
        /\ flushes >= 1 =>
               /\ emitted = "plan42"
               /\ thinking_content = "plan"
               /\ answer_content = "42"

\* C5: with the tags split across the chunks "<thi", "nking>hi</thin",
\* "king><answer>ok</answer>" the events and the state transitions are those
\* of the unsplit text: nothing until the last chunk, which returns one
\* thinking event "hi" then one answer event "ok", and nothing at flush.
C5_SplitTags ==
    source \in {SplitStream, UnsplitStream} =>
        /\ idx <= Len(source) => returned = <<>>
        /\ (idx > Len(source) /\ flushes = 0) =>
               returned = <<Event("thinking", "hi"), Event("answer", "ok")>>
        /\ idx > Len(source) =>
               /\ emitted = "hiok"
               /\ trace = <<"outside", "in_thinking", "outside", "in_answer", "outside">>
        /\ flushes >= 1 => returned = <<>>

\* The split stream has been delivered and flushed.
C5_Witness ==
    /\ source = SplitStream
    /\ flushes = 1
    /\ thinking_content = "hi"
    /\ answer_content = "ok"

\* C6: the stream ends in state in_thinking, no answer event was emitted and
\* the unterminated thinking section has a non-blank character: flush()
\* returns an answer event with non-empty content.
C6_RescueSurfacesAnswer ==
    [][(/\ flushes = 0 /\ flushes' = 1
        /\ state = "in_thinking"
        /\ answer_content = ""
        /\ Strip(SectionText) # "")
           => (/\ Len(returned') = 1
               /\ returned'[1].section = "answer"
               /\ returned'[1].content # "")]_vars

\* C7: every character that reaches the parser in state outside and is not
\* part of an opening tag is emitted in an answer event.  Stated on the
\* sessions that never leave state outside, in which no tag was matched and
\* all of the text is such characters.
C7_UntaggedIsAnswer ==
    (flushes = 1 /\ trace = <<"outside">>) => answer_content = FullText

\* C8: flush() returns at most one event, none for a blank buffer; the event
\* is a thinking event if the state is in_thinking and an answer event was
\* emitted earlier in the session, an answer event in every other case.
C8_FlushSection ==
    [][flushes' = flushes + 1 =>
          /\ Len(returned') <= 1
          /\ Strip(buffer) = "" => returned' = <<>>
          /\ returned' # <<>> =>
                 returned'[1].section =
                     IF state = "in_thinking" /\ answer_content # ""
                     THEN "thinking" ELSE "answer"]_vars

\* flush() has returned a thinking event, for an unterminated thinking
\* section that followed answer content.
C8_Witness ==
    /\ flushes = 1
    /\ Len(returned) = 1
    /\ returned[1].section = "thinking"
    /\ answer_content # ""

\* C9: every process_chunk call and flush() ends, the loop of process_chunk
\* within as many passes as its buffer has characters, and returns a list
\* of events of section thinking or answer, none with empty content.
C9_Terminates ==
    /\ ~looping
    /\ Len(returned) <= Len(Delivered)
    /\ \A i \in 1..Len(returned) :
           /\ returned[i].section \in {"thinking", "answer"}
           /\ returned[i].content # ""

\* A stream of unbalanced, nested tags has been parsed and flushed.
C9_Witness ==
    /\ FullText = "<thinking><answer></thinking>"
    /\ flushes = 1

\* C10: after flush() the parser is in its initial configuration, and a
\* second flush() returns no event.
C10_FlushResets ==
    /\ flushes >= 1 =>
           /\ state = "outside"
           /\ buffer = ""
           /\ current_content = ""
           /\ has_yielded_answer = FALSE
    /\ flushes >= 2 => returned = <<>>

\* flush() was called twice on a parser that the stream had left in state
\* in_thinking with a buffer and an answer yielded.
C10_Witness ==
    /\ FullText = "I am thinking<thinking>I am thinking"
    /\ flushes = 2
    /\ thinking_content # ""

-----------------------------------------------------------------------------
(* The generation session: generate_stream and generate_with_thinking of   *)
(* llm.py, run by the /chat event stream of api.py or by the chat loop of  *)
(* cli.py.                                                                 *)

\* Deltas of one upstream response.
MaxDeltas == 3

\* The deltas a provider's response is built from: delta.thinking is the
\* native thinking text of the delta and delta.content its content text,
\* "" when the delta has none.
Deltas ==
    {[thinking |-> "", content |-> "<thinking>plan"],
     [thinking |-> "", content |-> "</thinking><answer>42</answer>"],
     [thinking |-> "", content |-> "<thinking>some long reasoning</thinking>"],
     [thinking |-> "", content |-> "hello"],
     [thinking |-> "hmm", content |-> ""],
     [thinking |-> "hmm", content |-> "<answer>"]}

\* The responses of at most n deltas.
RECURSIVE Responses(_)
Responses(n) ==
    IF n = 0 THEN {<<>>}
    ELSE LET shorter == Responses(n - 1)
         IN  shorter \cup {Append(r, d) : r \in shorter, d \in Deltas}

\* str(e) of the exception the provider raises.
ErrorDescription == "provider unavailable"

\* The chunk dicts generate_stream yields for the i-th delta: the thinking
\* chunk if the delta has thinking text, then the content chunk if it has
\* content.  The field delta records the delta a chunk comes from.
DeltaChunks(delta, i) ==
    (IF delta.thinking # ""
     THEN <<[type |-> "thinking", content |-> delta.thinking, delta |-> i]>>
     ELSE <<>>)
    \o (IF delta.content # ""
        THEN <<[type |-> "content", content |-> delta.content, delta |-> i]>>
        ELSE <<>>)

\* The chunk dicts of the deltas from the i-th on.
RECURSIVE ChunksFrom(_, _)
ChunksFrom(deltas, i) ==
    IF i > Len(deltas) THEN <<>>
    ELSE DeltaChunks(deltas[i], i) \o ChunksFrom(deltas, i + 1)

\* The except branch of generate_stream: the exception becomes one more
\* content chunk.
ErrorChunk(i) ==
    [type |-> "content", content |-> "\n\n[Error: " \o ErrorDescription \o "]",
     delta |-> i]

\* generate_stream: every chunk dict it yields for a response made of
\* deltas after which the provider raises (raises) or ends.
generate_stream(deltas, raises) ==
    ChunksFrom(deltas, 1)
    \o (IF raises THEN <<ErrorChunk(Len(deltas) + 1)>> ELSE <<>>)

Yielded == generate_stream(upstream, fails)

QueryTypes == {"simple", "factual", "complex"}
Modes == {"auto", "pro", "fast"}

\* use_thinking with mode auto thinking on every query type.
use_thinking_AutoAlways(mode, qt) == mode # "fast"

\* api.py, step 2: the thinking behaviour of a mode and query type.
use_thinking(mode, qt) ==
    IF mode = "auto" THEN qt # "simple" ELSE mode = "pro"

\* api.py: the final thinking flag; request_include_thinking is <<>> for
\* None and <<b>> for the Boolean b.
IncludeThinking(request_include_thinking, mode, qt) ==
    IF request_include_thinking # <<>> THEN request_include_thinking[1]
    ELSE use_thinking(mode, qt)

\* api.py, step 4: the simple path never sections, the full pipeline
\* sections when include_thinking holds.
EffectiveUseThinking(mode, qt, include) ==
    IF qt = "simple" /\ mode # "pro" THEN FALSE ELSE include

\* A /chat request past classification and plan resolution.
InitApi ==
    \E mode \in Modes, qt \in QueryTypes, req \in {<<>>, <<TRUE>>, <<FALSE>>} :
        /\ caller = "api"
        /\ query_type = qt
        /\ include_thinking = IncludeThinking(req, mode, qt)
        /\ effective_use_thinking =
               EffectiveUseThinking(mode, qt, IncludeThinking(req, mode, qt))
        /\ pc = "conversation"

\* A turn of the chat loop of cli.py about to stream the response:
\* expect_thinking depends on the name of the model in use.
InitCli ==
    \E qt \in QueryTypes, expect_thinking \in BOOLEAN :
        /\ caller = "cli"
        /\ query_type = qt
        /\ include_thinking = expect_thinking
        /\ effective_use_thinking = TRUE
        /\ pc = "generate"

InitChat ==
    /\ Fresh(<<>>)
    /\ \E r \in Responses(MaxDeltas) : upstream = r
    /\ fails \in BOOLEAN
    /\ InitApi \/ InitCli
    /\ chunk_no = 1
    /\ full_response = ""
    /\ chat_full_response = ""
    /\ sink = <<>>
    /\ origin = <<>>
    /\ parsed_thinking = ""
    /\ sse = <<>>
    /\ messages_saved = <<>>
    /\ answer_to_store = ""
    /\ memories = <<>>
    /\ completion_calls = 0
    /\ outcome = [kind |-> "none", content |-> ""]
    /\ escaped = FALSE
    /\ NoRequest
    /\ NoPair
    /\ NoClean
    /\ NoDb

\* The variables of the other parts of the program.
elsewhere == <<parsers, sessions, raw_text, clean_text, conversations, messages,
               foreign_keys, next_id, db_call, api_keys, environ, conversation_id,
               api_key>>

\* The variables of the plan of a /chat request.
plan_vars == <<request_mode, request_model, req_include_thinking, tier, model,
               memory_searches>>

\* The variables a session never changes.
session_fixed == <<source, idx, off, section_start, caller, query_type,
                   include_thinking, effective_use_thinking, upstream, fails,
                   outcome, escaped, plan_vars, reading, elsewhere>>

\* The variables of the parser and of the generator.
generator_vars == <<state, buffer, current_content, has_yielded_answer, returned,
                    flushes, trace, cut, looping, full_response, origin,
                    parsed_thinking, chunk_no, completion_calls>>

\* The variables of the consumer of the events.
consumer_vars == <<sink, emitted, thinking_content, answer_content,
                   chat_full_response, sse>>

\* One SSE event of the /chat stream.
SSE(type, section, content) ==
    [type |-> type, section |-> section, content |-> content]

\* The chunk events event_stream yields for the events evs.
ChunkEvents(evs) ==
    [i \in 1..Len(evs) |-> SSE("chunk", evs[i].section, evs[i].content)]

\* event_stream, first yield: the conversation id.
SendConversation ==
    /\ pc = "conversation"
    /\ sse' = Append(sse, SSE("conversation", "", ""))
    /\ pc' = "classification"
    /\ UNCHANGED <<session_fixed, generator_vars, sink, emitted, thinking_content,
                   answer_content, chat_full_response, messages_saved,
                   answer_to_store, memories>>

\* event_stream, second yield: the classification.
SendClassification ==
    /\ pc = "classification"
    /\ sse' = Append(sse, SSE("classification", "", query_type))
    /\ pc' = "generate"
    /\ UNCHANGED <<session_fixed, generator_vars, sink, emitted, thinking_content,
                   answer_content, chat_full_response, messages_saved,
                   answer_to_store, memories>>

\* generate_stream up to its call of litellm.acompletion.
StartGeneration ==
    /\ pc = "generate"
    /\ completion_calls' = completion_calls + 1
    /\ pc' = "stream"
    /\ UNCHANGED <<session_fixed, consumer_vars, messages_saved, answer_to_store,
                   memories, state, buffer, current_content, has_yielded_answer,
                   returned, flushes, trace, cut, looping, full_response, origin,
                   parsed_thinking, chunk_no>>

\* TRUE when the session runs generate_with_thinking.
Sectioned == caller = "cli" \/ effective_use_thinking

\* The events generate_with_thinking yields for the events evs of the
\* parser: thinking events are skipped when include_thinking is false.
\* Each carries full_response and the deltas from..upto its text came in.
Forwarded(evs, full, from, upto) ==
    LET kept == SelectSeq(evs, LAMBDA e : ~(e.section = "thinking" /\ ~include_thinking))
    IN  [i \in 1..Len(kept) |->
            [section |-> kept[i].section, content |-> kept[i].content,
             full |-> full, from |-> from, upto |-> upto]]

\* The caller's loop body for the events evs that generate_with_thinking
\* yields: the content is added to the text of its section and, in /chat,
\* sent as a chunk event.
Deliver(evs) ==
    /\ sink' = sink \o evs
    /\ emitted' = emitted \o Contents(evs)
    /\ thinking_content' = thinking_content \o Contents(OfSection(evs, "thinking"))
    /\ answer_content' = answer_content \o Contents(OfSection(evs, "answer"))
    /\ chat_full_response' =
           IF caller = "api" /\ evs # <<>> THEN evs[Len(evs)].full
           ELSE chat_full_response
    /\ sse' = IF caller = "api" THEN sse \o ChunkEvents(evs) ELSE sse

\* The last n elements of the sequence s.
LastElements(s, n) == SubSeq(s, Len(s) - n + 1, Len(s))

\* AfterChunk with the events yielded before the chunk is added to
\* full_response: they carry the text of the earlier chunks only.
AfterChunk_StaleFull(r, c) ==
    /\ state' = r.state
    /\ buffer' = r.buffer
    /\ has_yielded_answer' = r.has_yielded_answer
    /\ current_content' = IF r.visited # <<>> THEN "" ELSE current_content
    /\ returned' = r.results
    /\ trace' = trace \o r.visited
    /\ cut' = r.cut
    /\ looping' = r.made_progress
    /\ full_response' = full_response \o c.content
    /\ origin' = LastElements(origin \o [i \in 1..Len(c.content) |-> c.delta],
                              Len(r.buffer))
    /\ parsed_thinking' = parsed_thinking \o Contents(OfSection(r.results, "thinking"))
    /\ Deliver(Forwarded(r.results, full_response,
                         IF origin = <<>> THEN c.delta ELSE origin[1], c.delta))

\* The parser and the generator after process_chunk left r on the chunk c,
\* and the caller after the events of the call.
AfterChunk(r, c) ==
    /\ state' = r.state
    /\ buffer' = r.buffer
    /\ has_yielded_answer' = r.has_yielded_answer
    /\ current_content' = IF r.visited # <<>> THEN "" ELSE current_content
    /\ returned' = r.results
    /\ trace' = trace \o r.visited
    /\ cut' = r.cut
    /\ looping' = r.made_progress
    /\ full_response' = full_response \o c.content
    /\ origin' = LastElements(origin \o [i \in 1..Len(c.content) |-> c.delta],
                              Len(r.buffer))
    /\ parsed_thinking' = parsed_thinking \o Contents(OfSection(r.results, "thinking"))
    /\ Deliver(Forwarded(r.results, full_response \o c.content,
                         IF origin = <<>> THEN c.delta ELSE origin[1], c.delta))

\* ThinkingChunk that treats the native thinking text as content: it is
\* added to full_response and fed to the parser.
ThinkingChunk_Parsed ==
    /\ pc = "stream"
    /\ Sectioned
    /\ chunk_no <= Len(Yielded)
    /\ Yielded[chunk_no].type = "thinking"
    /\ AfterChunk(process_chunk(state, buffer, has_yielded_answer,
                                Yielded[chunk_no].content),
                  Yielded[chunk_no])
    /\ chunk_no' = chunk_no + 1
    /\ UNCHANGED <<session_fixed, pc, messages_saved, answer_to_store, memories,
                   flushes, completion_calls>>

\* generate_with_thinking on a native thinking chunk: forwarded as it is
\* when include_thinking holds, the parser is not involved.
ThinkingChunk ==
    /\ pc = "stream"
    /\ Sectioned
    /\ chunk_no <= Len(Yielded)
    /\ Yielded[chunk_no].type = "thinking"
    /\ Deliver(IF include_thinking
               THEN <<[section |-> "thinking", content |-> Yielded[chunk_no].content,
                       full |-> full_response, from |-> Yielded[chunk_no].delta,
                       upto |-> Yielded[chunk_no].delta]>>
               ELSE <<>>)
    /\ chunk_no' = chunk_no + 1
    /\ UNCHANGED <<session_fixed, pc, messages_saved, answer_to_store, memories,
                   state, buffer, current_content, has_yielded_answer, returned,
                   flushes, trace, cut, looping, full_response, origin,
                   parsed_thinking, completion_calls>>

\* generate_with_thinking on a content chunk: the chunk is added to
\* full_response and fed to the parser, whose events are yielded.
ContentChunk ==
    /\ pc = "stream"
    /\ Sectioned
    /\ chunk_no <= Len(Yielded)
    /\ Yielded[chunk_no].type = "content"
    /\ AfterChunk(process_chunk(state, buffer, has_yielded_answer,
                                Yielded[chunk_no].content),
                  Yielded[chunk_no])
    /\ chunk_no' = chunk_no + 1
    /\ UNCHANGED <<session_fixed, pc, messages_saved, answer_to_store, memories,
                   flushes, completion_calls>>

\* AfterGeneration with /chat saving the messages before it validates.
AfterGeneration_SaveFirst == IF caller = "api" THEN "save" ELSE "done"

\* The step a caller is at once generation is over.
AfterGeneration == IF caller = "api" THEN "validate" ELSE "done"

\* EndOfStream that returns without flushing the parser.
EndOfStream_NoFlush ==
    /\ pc = "stream"
    /\ Sectioned
    /\ chunk_no > Len(Yielded)
    /\ pc' = AfterGeneration
    /\ UNCHANGED <<session_fixed, consumer_vars, messages_saved, answer_to_store,
                   memories, state, buffer, current_content, has_yielded_answer,
                   returned, flushes, trace, cut, looping, full_response, origin,
                   parsed_thinking, chunk_no, completion_calls>>

\* generate_with_thinking once generate_stream is exhausted: the parser is
\* flushed and the events of the flush are yielded.
EndOfStream ==
    /\ pc = "stream"
    /\ Sectioned
    /\ chunk_no > Len(Yielded)
    /\ returned' = flush(state, buffer, current_content, has_yielded_answer)
    /\ parsed_thinking' =
           parsed_thinking
           \o Contents(OfSection(flush(state, buffer, current_content,
                                       has_yielded_answer), "thinking"))
    /\ Deliver(Forwarded(flush(state, buffer, current_content, has_yielded_answer),
                         full_response,
                         IF origin = <<>> THEN Len(upstream) ELSE origin[1],
                         IF origin = <<>> THEN Len(upstream) ELSE origin[Len(origin)]))
    /\ flushes' = flushes + 1
    /\ buffer' = ""
    /\ current_content' = ""
    /\ state' = "outside"
    /\ has_yielded_answer' = FALSE
    /\ trace' = IF state # "outside" THEN Append(trace, "outside") ELSE trace
    /\ cut' = 0
    /\ origin' = <<>>
    /\ pc' = AfterGeneration
    /\ UNCHANGED <<session_fixed, messages_saved, answer_to_store, memories,
                   looping, full_response, chunk_no, completion_calls>>

\* SimpleChunk that labels a chunk by the type of its chunk dict: a native
\* thinking chunk is sent with section thinking.
SimpleChunk_ByType ==
    /\ pc = "stream"
    /\ ~Sectioned
    /\ chunk_no <= Len(Yielded)
    /\ chat_full_response' = chat_full_response \o Yielded[chunk_no].content
    /\ answer_content' = answer_content \o Yielded[chunk_no].content
    /\ emitted' = emitted \o Yielded[chunk_no].content
    /\ sse' = Append(sse, SSE("chunk",
                              IF Yielded[chunk_no].type = "thinking"
                              THEN "thinking" ELSE "answer",
                              Yielded[chunk_no].content))
    /\ chunk_no' = chunk_no + 1
    /\ UNCHANGED <<session_fixed, pc, messages_saved, answer_to_store, memories,
                   state, buffer, current_content, has_yielded_answer, returned,
                   flushes, trace, cut, looping, full_response, origin,
                   parsed_thinking, completion_calls, sink, thinking_content>>

\* event_stream without sectioning: the content of every chunk dict of
\* generate_stream, whatever its type, is sent as an answer chunk.
SimpleChunk ==
    /\ pc = "stream"
    /\ ~Sectioned
    /\ chunk_no <= Len(Yielded)
    /\ chat_full_response' = chat_full_response \o Yielded[chunk_no].content
    /\ answer_content' = answer_content \o Yielded[chunk_no].content
    /\ emitted' = emitted \o Yielded[chunk_no].content
    /\ sse' = Append(sse, SSE("chunk", "answer", Yielded[chunk_no].content))
    /\ chunk_no' = chunk_no + 1
    /\ UNCHANGED <<session_fixed, pc, messages_saved, answer_to_store, memories,
                   state, buffer, current_content, has_yielded_answer, returned,
                   flushes, trace, cut, looping, full_response, origin,
                   parsed_thinking, completion_calls, sink, thinking_content>>

\* event_stream without sectioning once generate_stream is exhausted.
SimpleEnd ==
    /\ pc = "stream"
    /\ ~Sectioned
    /\ chunk_no > Len(Yielded)
    /\ pc' = AfterGeneration
    /\ UNCHANGED <<session_fixed, generator_vars, consumer_vars, messages_saved,
                   answer_to_store, memories>>

\* validate_response(response, query_type)["is_valid"] on a response with
\* no code block (the deltas of the model hold none).
validate_response(response) == ~(response = "" \/ Len(Strip(response)) < 5)

\* event_stream, step 6: the validation event.
Validate ==
    /\ pc = "validate"
    /\ sse' = Append(sse, SSE("validation", "",
                              IF validate_response(chat_full_response)
                              THEN "valid" ELSE "invalid"))
    /\ pc' = "save"
    /\ UNCHANGED <<session_fixed, generator_vars, sink, emitted, thinking_content,
                   answer_content, chat_full_response, messages_saved,
                   answer_to_store, memories>>

\* The user's message of the request.
last_message == "What is 2+2?"

\* One db.add_message call; thinking "" stands for None (a thinking text
\* that is stored is never empty).
Message(role, content, thinking) ==
    [role |-> role, content |-> content, thinking |-> thinking]

\* thinking_to_store and answer_to_store of step 7.
ThinkingToStore == Strip(thinking_content)
AnswerToStore ==
    IF Strip(answer_content) # "" THEN Strip(answer_content)
    ELSE Strip(chat_full_response)

\* event_stream, step 7: the user's message then the assistant's are saved;
\* failed names the db.add_message call that raises, if one does, which is
\* logged and ends the step.
SaveMessages ==
    /\ pc = "save"
    /\ \E failed \in {"none", "user", "assistant"} :
          /\ messages_saved' =
                 CASE failed = "user" -> messages_saved
                   [] failed = "assistant" ->
                          Append(messages_saved, Message("user", last_message, ""))
                   [] failed = "none" ->
                          messages_saved
                          \o <<Message("user", last_message, ""),
                               Message("assistant", AnswerToStore, ThinkingToStore)>>
          /\ answer_to_store' =
                 IF failed = "user" THEN Strip(chat_full_response) ELSE AnswerToStore
    /\ pc' = "memory"
    /\ UNCHANGED <<session_fixed, generator_vars, consumer_vars, memories>>

\* memory_text of step 8.
MemoryText == "User: " \o last_message \o "\n\nAssistant: " \o answer_to_store

\* StoreMemory with the exception of memory.add_memory leaving the stream
\* without a terminal event.
StoreMemory_NoTerminal ==
    /\ pc = "memory"
    /\ \/ /\ query_type # "simple"
          /\ memories' = Append(memories, MemoryText)
          /\ sse' = Append(sse, SSE("[DONE]", "", ""))
       \/ /\ query_type # "simple"
          /\ memories' = memories
          /\ sse' = sse
       \/ /\ query_type = "simple"
          /\ memories' = memories
          /\ sse' = Append(sse, SSE("[DONE]", "", ""))
    /\ pc' = "done"
    /\ UNCHANGED <<session_fixed, generator_vars, sink, emitted, thinking_content,
                   answer_content, chat_full_response, messages_saved,
                   answer_to_store>>

\* event_stream, step 8 and the completion signal: unless the query is
\* simple the exchange is stored in memory; memory.add_memory may raise,
\* which the except branch of event_stream turns into the error event.
StoreMemory ==
    /\ pc = "memory"
    /\ \/ /\ query_type # "simple"
          /\ memories' = Append(memories, MemoryText)
          /\ sse' = Append(sse, SSE("[DONE]", "", ""))
       \/ /\ query_type # "simple"
          /\ memories' = memories
          /\ sse' = Append(sse, SSE("error", "", "Memory service not initialized"))
       \/ /\ query_type = "simple"
          /\ memories' = memories
          /\ sse' = Append(sse, SSE("[DONE]", "", ""))
    /\ pc' = "done"
    /\ UNCHANGED <<session_fixed, generator_vars, sink, emitted, thinking_content,
                   answer_content, chat_full_response, messages_saved,
                   answer_to_store>>

NextChat ==
    \/ SendConversation
    \/ SendClassification
    \/ StartGeneration
    \/ ThinkingChunk
    \/ ContentChunk
    \/ EndOfStream
    \/ SimpleChunk
    \/ SimpleEnd
    \/ Validate
    \/ SaveMessages
    \/ StoreMemory

SpecChat == InitChat /\ [][NextChat]_vars

-----------------------------------------------------------------------------
(* The generation session as the claims see it. *)

\* TRUE once the generation of the response is over.
GenerationOver == pc \in {"validate", "save", "memory", "done"}

\* The six tag literals of the protocol.
TagLiterals ==
    {THINKING_OPEN_VARIANTS[i] : i \in 1..Len(THINKING_OPEN_VARIANTS)}
    \cup {THINKING_CLOSE_VARIANTS[i] : i \in 1..Len(THINKING_CLOSE_VARIANTS)}
    \cup {ANSWER_OPEN, ANSWER_CLOSE}

\* TRUE when text holds none of the tag literals.
NoTagLiteral(text) == \A t \in TagLiterals : Find(text, t) = -1

\* The positions in the SSE stream of the events of the types in types.
Positions(types) == {i \in 1..Len(sse) : sse[i].type \in types}

\* C11: within one session the events reach the sink in the order of the
\* upstream deltas they were derived from: no event whose text came in
\* earlier deltas only is delivered after an event derived from a later
\* delta, native thinking deltas included.
C11_EventsInDeltaOrder ==
    \A i, j \in 1..Len(sink) : i < j => sink[i].from <= sink[j].upto

\* C12: when the upstream source fails, generate_with_thinking yields
\* exactly one event of section error, carrying the error description, as
\* the last event of the session, and the upstream call is made once.
C12_UpstreamErrorEvent ==
    (Sectioned /\ fails /\ GenerationOver) =>
        /\ Len(OfSection(sink, "error")) = 1
        /\ sink[Len(sink)].section = "error"
        /\ Find(sink[Len(sink)].content, ErrorDescription) # -1
        /\ completion_calls = 1

\* C13: with thinking disabled no thinking event reaches the caller, and
\* at the end of generation the session's thinking accumulator is the
\* concatenation of the thinking text the parser separated out.
C13_ThinkingStillAccumulated ==
    (Sectioned /\ ~include_thinking) =>
        /\ OfSection(sink, "thinking") = <<>>
        /\ GenerationOver => thinking_content = parsed_thinking

\* C14: the cumulative full text of every event generate_with_thinking
\* yields holds none of the six tag literals.
C14_FullTextTagStripped ==
    \A i \in 1..Len(sink) : NoTagLiteral(sink[i].full)

\* The content of the content chunks among the first n chunk dicts that
\* generate_stream yields, concatenated.
RECURSIVE RawContent(_)
RawContent(n) ==
    IF n = 0 THEN ""
    ELSE RawContent(n - 1)
         \o (IF Yielded[n].type = "content" THEN Yielded[n].content ELSE "")

\* C14 as amended: every event generate_with_thinking yields carries the
\* cumulative raw text so far, the concatenation of every content chunk
\* received up to that event, tag literals included.
C14_FullIsRawContent ==
    [][\A i \in (Len(sink) + 1)..Len(sink') :
           sink'[i].full = RawContent(chunk_no' - 1)]_vars

\* An event has been yielded whose cumulative text holds a tag literal.
C14_Witness ==
    \E i \in 1..Len(sink) : ~NoTagLiteral(sink[i].full) /\ sink[i].section = "answer"

\* C15: the assistant message and the memory text handed over at the end
\* of a /chat session are built from the accumulators alone: the stored
\* answer is the text of the answer events and holds no tag literal, the
\* stored thinking is the text of the thinking events.
C15_DisjointAccumulators ==
    /\ \A i \in 1..Len(messages_saved) :
           messages_saved[i].role = "assistant" =>
               /\ messages_saved[i].content = Strip(answer_content)
               /\ messages_saved[i].thinking = Strip(thinking_content)
               /\ NoTagLiteral(messages_saved[i].content)
    /\ \A i \in 1..Len(memories) :
           /\ memories[i] = "User: " \o last_message \o "\n\nAssistant: "
                            \o Strip(answer_content)
           /\ NoTagLiteral(memories[i])

\* C16: the SSE stream of /chat has the conversation event once, first, the
\* classification event once, second, every chunk event after them and
\* before the validation event, at most one validation event, and one
\* terminal event ([DONE] or error), which is the last event of the stream.
C16_StreamShape ==
    caller = "api" =>
        /\ \A i \in 1..Len(sse) :
               sse[i].type \in {"conversation", "classification", "chunk",
                                "validation", "[DONE]", "error"}
        /\ Positions({"conversation"}) = {1} \cap (1..Len(sse))
        /\ Positions({"classification"}) = {2} \cap (1..Len(sse))
        /\ \A i \in Positions({"chunk"}) :
               i > 2 /\ \A j \in Positions({"validation"}) : i < j
        /\ Cardinality(Positions({"validation"})) <= 1
        /\ Positions({"[DONE]", "error"}) \subseteq {Len(sse)}
        /\ pc = "done" => Positions({"[DONE]", "error"}) = {Len(sse)}
        /\ pc # "done" => Positions({"[DONE]", "error"}) = {}

\* A /chat stream that has ended with chunk events, the validation event
\* and the completion signal.
C16_Witness ==
    /\ caller = "api"
    /\ pc = "done"
    /\ Positions({"chunk"}) # {}
    /\ Positions({"validation"}) # {}
    /\ sse[Len(sse)].type = "[DONE]"

\* C17: when generation completed without an upstream failure, a failing
\* db.add_message or memory.add_memory does not abort the session: the
\* stream ends with [DONE] and holds no error event.
C17_CollaboratorFailureTolerated ==
    (caller = "api" /\ ~fails /\ pc = "done") =>
        /\ sse[Len(sse)].type = "[DONE]"
        /\ Positions({"error"}) = {}

\* C18: when the upstream source fails during a /chat session, neither
\* db.add_message nor memory.add_memory is invoked.
C18_NoPersistenceAfterUpstreamFailure ==
    (caller = "api" /\ fails) => messages_saved = <<>> /\ memories = <<>>

-----------------------------------------------------------------------------
(* The query classifier: classify_query of router.py. *)

\* Words concatenated to build a reply of the classifier's model.
MaxWords == 2

\* What a reply is built from.
ReplyWords ==
    {"simple", "factual", "complex", "Simple", "FACTUAL", "maybe", " ", "\n"}

\* The replies of at most n words.
RECURSIVE Replies(_)
Replies(n) ==
    IF n = 0 THEN {""}
    ELSE LET shorter == Replies(n - 1)
         IN  shorter \cup {r \o w : r \in shorter, w \in ReplyWords}

\* What the litellm.acompletion call of classify_query comes to: a reply
\* with its message content, a reply whose message content is None, an
\* exception of the provider, or a timeout.
Outcomes ==
    {[kind |-> "reply", content |-> r] : r \in Replies(MaxWords)}
    \cup {[kind |-> k, content |-> ""] : k \in {"null", "error", "timeout"}}

\* ParseReply that tests the words on the reply as it is, without lower().
ParseReply_CaseSensitive(content, result) ==
    IF Find(Strip(content), "simple") # -1 THEN "simple"
    ELSE IF Find(Strip(content), "factual") # -1 THEN "factual"
    ELSE "complex"

\* The parse of a reply's content, with result = content.strip().lower().
ParseReply(content, result) ==
    IF Find(result, "simple") # -1 THEN "simple"
    ELSE IF Find(result, "factual") # -1 THEN "factual"
    ELSE "complex"

\* The try block of classify_query: the value it returns, or raised when an
\* exception leaves it (the call raises or times out, or the content is
\* None, which has no strip()).
TryClassify(o) ==
    IF o.kind = "reply"
    THEN [raised |-> FALSE, value |-> ParseReply(o.content, Lower(Strip(o.content)))]
    ELSE [raised |-> TRUE, value |-> ""]

\* classify_query without its except branch: the exception leaves it.
classify_query_NoExcept(o) ==
    IF TryClassify(o).raised
    THEN [escaped |-> TRUE, value |-> ""]
    ELSE [escaped |-> FALSE, value |-> TryClassify(o).value]

\* classify_query on the outcome o of its upstream call: the except branch
\* returns complex.
classify_query(o) ==
    IF TryClassify(o).raised
    THEN [escaped |-> FALSE, value |-> "complex"]
    ELSE [escaped |-> FALSE, value |-> TryClassify(o).value]

\* A classification about to be made, with the outcome its upstream call
\* will have.
InitClassify ==
    /\ Fresh(<<>>)
    /\ outcome \in Outcomes
    /\ pc = "classify"
    /\ query_type = ""
    /\ escaped = FALSE
    /\ caller = ""
    /\ include_thinking = TRUE
    /\ effective_use_thinking = TRUE
    /\ upstream = <<>>
    /\ fails = FALSE
    /\ chunk_no = 1
    /\ full_response = ""
    /\ chat_full_response = ""
    /\ sink = <<>>
    /\ origin = <<>>
    /\ parsed_thinking = ""
    /\ sse = <<>>
    /\ messages_saved = <<>>
    /\ answer_to_store = ""
    /\ memories = <<>>
    /\ completion_calls = 0
    /\ NoRequest
    /\ NoPair
    /\ NoClean
    /\ NoDb

\* query_type = await classify_query(last_message, router_api_key)
Classify ==
    /\ pc = "classify"
    /\ query_type' = classify_query(outcome).value
    /\ escaped' = classify_query(outcome).escaped
    /\ pc' = "classified"
    /\ UNCHANGED <<source, idx, off, state, buffer, current_content,
                   has_yielded_answer, returned, emitted, thinking_content,
                   answer_content, flushes, trace, cut, section_start, looping,
                   caller, include_thinking, effective_use_thinking, upstream,
                   fails, chunk_no, full_response, chat_full_response, sink,
                   origin, parsed_thinking, sse, messages_saved, answer_to_store,
                   memories, completion_calls, outcome, plan_vars, reading,
                   elsewhere>>

NextClassify == Classify

SpecClassify == InitClassify /\ [][NextClassify]_vars

\* TRUE when text holds the word w in any mix of upper and lower case.
ContainsWord(text, w) ==
    \E i \in 1..(Len(text) - Len(w) + 1) :
        Lower(SubSeq(text, i, i + Len(w) - 1)) = w

\* C19: classify_query returns one of simple, factual, complex for every
\* outcome of its upstream call, no exception leaves it, and it returns
\* complex when the call fails or times out and when the reply is null,
\* empty or holds neither "simple" nor "factual".
C19_ClassifyTotal ==
    pc = "classified" =>
        /\ ~escaped
        /\ query_type \in QueryTypes
        /\ (\/ outcome.kind # "reply"
            \/ ~ContainsWord(outcome.content, "simple")
               /\ ~ContainsWord(outcome.content, "factual"))
           => query_type = "complex"

\* Classifications made after each failure of the upstream call.
C19_Witness ==
    /\ pc = "classified"
    /\ outcome.kind = "null"
    /\ query_type = "complex"

\* C20: a reply holding "simple" in any case gives simple, also when it
\* holds "factual" or "complex"; otherwise a reply holding "factual" gives
\* factual; otherwise the result is complex.
C20_SubstringPriority ==
    (pc = "classified" /\ outcome.kind = "reply") =>
        query_type =
            IF ContainsWord(outcome.content, "simple") THEN "simple"
            ELSE IF ContainsWord(outcome.content, "factual") THEN "factual"
            ELSE "complex"

\* A reply holding both words, in upper and mixed case, classified simple.
C20_Witness ==
    /\ pc = "classified"
    /\ outcome = [kind |-> "reply", content |-> "FACTUALSimple"]
    /\ query_type = "simple"

-----------------------------------------------------------------------------
(* The /chat request: classification, plan resolution (steps 1 to 4 of     *)
(* chat in api.py), then the event stream, which the client may stop       *)
(* reading.                                                                *)

\* Deltas of the upstream response of a /chat request.
MaxRequestDeltas == 2

\* The deltas these responses are built from.
RequestDeltas ==
    {[thinking |-> "", content |-> "<thinking>plan"],
     [thinking |-> "", content |-> "</thinking><answer>42</answer>"],
     [thinking |-> "hmm", content |-> ""]}

\* The responses of at most n of these deltas.
RECURSIVE RequestResponses(_)
RequestResponses(n) ==
    IF n = 0 THEN {<<>>}
    ELSE LET shorter == RequestResponses(n - 1)
         IN  shorter \cup {Append(r, d) : r \in shorter, d \in RequestDeltas}

\* What the classifier's upstream call comes to in these requests.
RequestOutcomes ==
    {[kind |-> "reply", content |-> r] : r \in {"simple", "Factual", "complex"}}
    \cup {[kind |-> "error", content |-> ""]}

\* config.py: the model of each tier.
MODEL_TIERS ==
    [pro |-> "gemini/gemini-3-pro-preview",
     auto |-> "gemini/gemini-3-flash-preview",
     fast |-> "gemini/gemini-3-flash-preview"]

\* api.py, step 2: the key of MODEL_TIERS that gives base_model.
BaseTier(mode, qt) ==
    IF mode = "auto" THEN (IF qt = "simple" THEN "fast" ELSE "auto")
    ELSE IF mode = "pro" THEN "pro"
    ELSE "fast"

\* model = request.model or base_model, with req_model <<>> for None.
ResolveModel(req_model, base_model) ==
    IF req_model # <<>> /\ req_model[1] # "" THEN req_model[1] ELSE base_model

\* api.py, step 4: TRUE on the full pipeline, which searches the memory.
FullPipeline(mode, qt) == ~(qt = "simple" /\ mode # "pro")

\* A /chat request about to classify its query.
InitRequest ==
    /\ Fresh(<<>>)
    /\ caller = "api"
    /\ request_mode \in Modes
    /\ request_model \in {<<>>, <<"">>, <<"gpt-4o-mini">>}
    /\ req_include_thinking \in {<<>>, <<TRUE>>, <<FALSE>>}
    /\ outcome \in RequestOutcomes
    /\ \E r \in RequestResponses(MaxRequestDeltas) : upstream = r
    /\ fails \in BOOLEAN
    /\ pc = "classify"
    /\ query_type = ""
    /\ escaped = FALSE
    /\ include_thinking = FALSE
    /\ effective_use_thinking = FALSE
    /\ tier = ""
    /\ model = ""
    /\ memory_searches = 0
    /\ reading = TRUE
    /\ api_keys = <<>>
    /\ environ = [OPENAI_API_KEY |-> "", ANTHROPIC_API_KEY |-> "",
                  GOOGLE_API_KEY |-> ""]
    /\ conversation_id = 0
    /\ api_key = <<>>
    /\ chunk_no = 1
    /\ full_response = ""
    /\ chat_full_response = ""
    /\ sink = <<>>
    /\ origin = <<>>
    /\ parsed_thinking = ""
    /\ sse = <<>>
    /\ messages_saved = <<>>
    /\ answer_to_store = ""
    /\ memories = <<>>
    /\ completion_calls = 0
    /\ NoPair
    /\ NoClean
    /\ NoDb

\* ResolvePlan that classifies the query again when the request carries
\* an override.
ResolvePlan_Reclassify ==
    /\ pc = "classified"
    /\ caller = "api"
    /\ tier' = BaseTier(request_mode, query_type)
    /\ model' = ResolveModel(request_model,
                             MODEL_TIERS[BaseTier(request_mode, query_type)])
    /\ include_thinking' =
           IncludeThinking(req_include_thinking, request_mode, query_type)
    /\ effective_use_thinking' =
           EffectiveUseThinking(request_mode, query_type,
               IncludeThinking(req_include_thinking, request_mode, query_type))
    /\ memory_searches' =
           IF FullPipeline(request_mode, query_type)
           THEN memory_searches + 1 ELSE memory_searches
    /\ pc' = IF (request_model # <<>> \/ req_include_thinking # <<>>) /\ tier = ""
             THEN "classify" ELSE "conversation"
    /\ UNCHANGED <<source, idx, off, section_start, caller, query_type, upstream,
                   fails, outcome, escaped, request_mode, request_model,
                   req_include_thinking, reading, elsewhere, generator_vars,
                   consumer_vars, messages_saved, answer_to_store, memories>>

\* ResolvePlan that searches the memory on every path.
ResolvePlan_AlwaysSearch ==
    /\ pc = "classified"
    /\ caller = "api"
    /\ tier' = BaseTier(request_mode, query_type)
    /\ model' = ResolveModel(request_model,
                             MODEL_TIERS[BaseTier(request_mode, query_type)])
    /\ include_thinking' =
           IncludeThinking(req_include_thinking, request_mode, query_type)
    /\ effective_use_thinking' =
           EffectiveUseThinking(request_mode, query_type,
               IncludeThinking(req_include_thinking, request_mode, query_type))
    /\ memory_searches' = memory_searches + 1
    /\ pc' = "conversation"
    /\ UNCHANGED <<source, idx, off, section_start, caller, query_type, upstream,
                   fails, outcome, escaped, request_mode, request_model,
                   req_include_thinking, reading, elsewhere, generator_vars,
                   consumer_vars, messages_saved, answer_to_store, memories>>

\* chat, steps 2 to 4: the tier and the model, the thinking flag with the
\* request's override, and the path: the simple path neither searches the
\* memory nor sections, the full pipeline searches it once.
ResolvePlan ==
    /\ pc = "classified"
    /\ caller = "api"
    /\ tier' = BaseTier(request_mode, query_type)
    /\ model' = ResolveModel(request_model,
                             MODEL_TIERS[BaseTier(request_mode, query_type)])
    /\ include_thinking' =
           IncludeThinking(req_include_thinking, request_mode, query_type)
    /\ effective_use_thinking' =
           EffectiveUseThinking(request_mode, query_type,
               IncludeThinking(req_include_thinking, request_mode, query_type))
    /\ memory_searches' =
           IF FullPipeline(request_mode, query_type)
           THEN memory_searches + 1 ELSE memory_searches
    /\ pc' = "conversation"
    /\ UNCHANGED <<source, idx, off, section_start, caller, query_type, upstream,
                   fails, outcome, escaped, request_mode, request_model,
                   req_include_thinking, reading, elsewhere, generator_vars,
                   consumer_vars, messages_saved, answer_to_store, memories>>

\* The steps at which event_stream is suspended or about to start.
Streaming ==
    pc \in {"conversation", "classification", "generate", "stream", "validate",
            "save", "memory"}

\* Disconnect with the stream going on without its reader.
Disconnect_Detached ==
    /\ reading
    /\ Streaming
    /\ reading' = FALSE
    /\ UNCHANGED <<source, idx, off, section_start, caller, query_type,
                   include_thinking, effective_use_thinking, upstream, fails,
                   outcome, escaped, plan_vars, elsewhere, generator_vars,
                   consumer_vars, messages_saved, answer_to_store, memories, pc>>

\* The client stops reading the event stream: the generator event_stream is
\* never resumed; closing it raises GeneratorExit (or CancelledError) at the
\* point it is suspended, which no except Exception branch catches.
Disconnect ==
    /\ reading
    /\ Streaming
    /\ reading' = FALSE
    /\ pc' = "closed"
    /\ UNCHANGED <<source, idx, off, section_start, caller, query_type,
                   include_thinking, effective_use_thinking, upstream, fails,
                   outcome, escaped, plan_vars, elsewhere, generator_vars,
                   consumer_vars, messages_saved, answer_to_store, memories>>

NextRequest ==
    \/ Classify
    \/ ResolvePlan
    \/ SendConversation
    \/ SendClassification
    \/ StartGeneration
    \/ ThinkingChunk
    \/ ContentChunk
    \/ EndOfStream
    \/ SimpleChunk
    \/ SimpleEnd
    \/ Validate
    \/ SaveMessages
    \/ StoreMemory
    \/ Disconnect

SpecRequest == InitRequest /\ [][NextRequest]_vars

\* TRUE once the plan of the request is resolved.
Resolved == pc \notin {"classify", "classified"}

\* TRUE when the request overrides neither the model nor the thinking flag.
NoOverrides == request_model = <<>> /\ req_include_thinking = <<>>

C22_OverridesDecide ==
    Resolved =>
        /\ req_include_thinking # <<>> =>
               /\ include_thinking = req_include_thinking[1]
               /\ effective_use_thinking = req_include_thinking[1]
        /\ (request_model # <<>> /\ request_model[1] # "") =>
               model = request_model[1]

\* C23: a request of mode auto, classified simple, with no overrides is
\* resolved to the fast tier with thinking off, and no chunk event of its
\* stream has section thinking, whatever the upstream source yields.
C23_SimpleAutoNoThinking ==
    (Resolved /\ NoOverrides /\ request_mode = "auto" /\ query_type = "simple") =>
        /\ tier = "fast"
        /\ ~include_thinking
        /\ \A i \in 1..Len(sse) :
               ~(sse[i].type = "chunk" /\ sse[i].section = "thinking")

\* Such a request whose upstream source yielded a native thinking delta
\* and an opening thinking tag, ended.
C23_Witness ==
    /\ NoOverrides
    /\ request_mode = "auto"
    /\ query_type = "simple"
    /\ pc = "done"
    /\ \E i \in 1..Len(sse) : sse[i].type = "chunk" /\ sse[i].content = "hmm"
    /\ \E i \in 1..Len(sse) : sse[i].type = "chunk" /\ sse[i].content = "<thinking>plan"

C30_SimpleLeavesMemory ==
    (request_mode \in {"auto", "fast"} /\ query_type = "simple") =>
        memory_searches = 0 /\ memories = <<>>

\* Such a request, ended with the completion signal.
C30_Witness ==
    /\ request_mode \in {"auto", "fast"}
    /\ query_type = "simple"
    /\ pc = "done"
    /\ sse[Len(sse)].type = "[DONE]"
    /\ messages_saved # <<>>

-----------------------------------------------------------------------------
(* Native thinking deltas and the flush of the parser, in the sessions of   *)
(* SpecChat.                                                                *)

\* TRUE when the next chunk of a sectioned session is a native thinking one.
AtNativeThinking ==
    /\ pc = "stream"
    /\ Sectioned
    /\ chunk_no <= Len(Yielded)
    /\ Yielded[chunk_no].type = "thinking"

\* C26: a step of generate_with_thinking on a native thinking chunk leaves
\* the parser's state, buffer and pending content and the cumulative full
\* text unchanged; with include_thinking it yields exactly one thinking
\* event with the chunk's content, otherwise none.
C26_NativeThinkingBypassesParser ==
    [][(AtNativeThinking /\ chunk_no' = chunk_no + 1) =>
          /\ state' = state
          /\ buffer' = buffer
          /\ current_content' = current_content
          /\ has_yielded_answer' = has_yielded_answer
          /\ full_response' = full_response
          /\ IF include_thinking
             THEN /\ Len(sink') = Len(sink) + 1
                  /\ SubSeq(sink', 1, Len(sink)) = sink
                  /\ sink'[Len(sink')].section = "thinking"
                  /\ sink'[Len(sink')].content = Yielded[chunk_no].content
                  /\ thinking_content' =
                         thinking_content \o Yielded[chunk_no].content
             ELSE sink' = sink]_vars

\* A native thinking chunk was forwarded while the parser was inside a
\* section with text held back in its buffer.
C26_Witness ==
    /\ pc = "stream"
    /\ Sectioned
    /\ include_thinking
    /\ chunk_no > 1
    /\ Yielded[chunk_no - 1].type = "thinking"
    /\ sink # <<>>
    /\ sink[Len(sink)].content = Yielded[chunk_no - 1].content
    /\ buffer # ""
    /\ state = "in_thinking"

\* C27: the parser of a session is flushed once, when every chunk of
\* generate_stream has been processed, never before, and no chunk is
\* processed nor the parser touched after the flush; every sectioned
\* session that is past generation has flushed exactly once.
C27_FlushOnceAtEnd ==
    /\ [](Sectioned => flushes = IF GenerationOver THEN 1 ELSE 0)
    /\ [][flushes' # flushes =>
             /\ flushes = 0
             /\ flushes' = 1
             /\ chunk_no > Len(Yielded)]_vars
    /\ [][flushes >= 1 =>
             UNCHANGED <<state, buffer, current_content, has_yielded_answer,
                         chunk_no, full_response>>]_vars

\* A sectioned session past generation whose chunks went through the
\* parser and whose flush yielded an event.
C27_Witness ==
    /\ Sectioned
    /\ GenerationOver
    /\ flushes = 1
    /\ chunk_no > 2
    /\ returned # <<>>
    /\ \E i \in 1..Len(Yielded) : Yielded[i].type = "content"

-----------------------------------------------------------------------------
(* Variables a component leaves alone when it is used on its own, and the   *)
(* idle values of a generation session.                                     *)

parser_side == <<source, idx, off, state, buffer, current_content,
                 has_yielded_answer, returned, emitted, thinking_content,
                 answer_content, flushes, trace, cut, section_start, looping>>

chat_side == <<caller, query_type, include_thinking, effective_use_thinking,
               upstream, fails, chunk_no, full_response, chat_full_response,
               sink, origin, parsed_thinking, sse, messages_saved,
               answer_to_store, memories, completion_calls, outcome, escaped,
               plan_vars, reading>>

\* No generation session and no classification is running.
NoChat ==
    /\ NoRequest
    /\ caller = ""
    /\ query_type = ""
    /\ include_thinking = TRUE
    /\ effective_use_thinking = TRUE
    /\ upstream = <<>>
    /\ fails = FALSE
    /\ chunk_no = 1
    /\ full_response = ""
    /\ chat_full_response = ""
    /\ sink = <<>>
    /\ origin = <<>>
    /\ parsed_thinking = ""
    /\ sse = <<>>
    /\ messages_saved = <<>>
    /\ answer_to_store = ""
    /\ memories = <<>>
    /\ completion_calls = 0
    /\ outcome = [kind |-> "none", content |-> ""]
    /\ escaped = FALSE

-----------------------------------------------------------------------------
(* TagParser._clean_tag_artifacts called on a text.                         *)

\* Pieces concatenated to build the text to clean.
MaxCleanPieces == 3

\* What the text to clean is built from: tags, an unclosed tag, a blank,
\* the word answer and other words.
CleanPieces == {"<answer>", "</answer", "</Thinking>", " ", "answer", "is 42"}

\* The texts of at most n of these pieces.
RECURSIVE CleanTexts(_)
CleanTexts(n) ==
    IF n = 0 THEN {""}
    ELSE LET shorter == CleanTexts(n - 1)
         IN  shorter \cup {t \o p : t \in shorter, p \in CleanPieces}

\* A parser about to clean a text.
InitClean ==
    /\ Fresh(<<>>)
    /\ NoChat
    /\ NoPair
    /\ NoDb
    /\ raw_text \in CleanTexts(MaxCleanPieces)
    /\ clean_text = ""
    /\ pc = "clean"

\* cleaned = self._clean_tag_artifacts(text)
Clean ==
    /\ pc = "clean"
    /\ clean_text' = clean_tag_artifacts(raw_text)
    /\ pc' = "cleaned"
    /\ UNCHANGED <<parser_side, chat_side, parsers, sessions, raw_text,
                   conversations, messages, foreign_keys, next_id, db_call,
                   api_keys, environ, conversation_id,
               api_key>>

NextClean == Clean

SpecClean == InitClean /\ [][NextClean]_vars

\* The tag literals and their unclosed variants, in lower case.
EndLiterals ==
    TagLiterals \cup {Lower(tag_artifacts[i]) : i \in 1..8}

\* TRUE when s is made of whitespace, tag literals and unclosed tags only.
RECURSIVE Strippable(_)
Strippable(s) ==
    \/ s = ""
    \/ CharAt(s, 0) \in Whitespace /\ Strippable(Drop(s, 1))
    \/ \E a \in EndLiterals :
           /\ Len(a) <= Len(s)
           /\ Lower(Take(s, Len(a))) = a
           /\ Strippable(Drop(s, Len(a)))

\* C28: the cleaned text is the text without a prefix and a suffix that
\* are made of whitespace, tag literals and unclosed tags only: every
\* other character is kept, in order.
C28_OnlyEndsStripped ==
    pc = "cleaned" =>
        \E i, j \in 0..Len(raw_text) :
            /\ i + j <= Len(raw_text)
            /\ clean_text = DropLast(Drop(raw_text, i), j)
            /\ Strippable(Take(raw_text, i))
            /\ Strippable(IF j = 0 THEN "" ELSE LastChars(raw_text, j))

-----------------------------------------------------------------------------
(* DatabaseService: conversations and their messages.                       *)

\* Conversations created in one database.
MaxConversations == 2
\* Messages added to one database.
MaxMessages == 3

\* The conversation ids a caller may pass: those create_conversation
\* returns, in the order it returns them.
ConversationIds == 1..MaxConversations

Roles == {"user", "assistant"}

\* An empty database.  _get_connection never sets PRAGMA foreign_keys, so
\* whether the FOREIGN KEY clause of the messages table is enforced is the
\* default of the SQLite library the interpreter is built with.
InitDb ==
    /\ Fresh(<<>>)
    /\ NoChat
    /\ NoPair
    /\ NoClean
    /\ pc = "db"
    /\ conversations = {}
    /\ messages = <<>>
    /\ foreign_keys \in BOOLEAN
    /\ next_id = 0
    /\ db_call = [op |-> "none", id |-> 0, ok |-> TRUE]

db_fixed == <<parser_side, chat_side, pc, parsers, sessions, raw_text,
              clean_text, foreign_keys, api_keys, environ, conversation_id,
               api_key>>

\* create_conversation: a row with a new id.
CreateConversation ==
    /\ pc = "db"
    /\ next_id < MaxConversations
    /\ next_id' = next_id + 1
    /\ conversations' = conversations \cup {next_id + 1}
    /\ db_call' = [op |-> "create_conversation", id |-> next_id + 1, ok |-> TRUE]
    /\ UNCHANGED <<db_fixed, messages>>

\* add_message: the row is inserted; with the foreign key enforced the
\* insert for an absent conversation raises IntegrityError, which the
\* method turns into ValueError.
AddMessage ==
    /\ pc = "db"
    /\ Len(messages) < MaxMessages
    /\ \E cid \in ConversationIds, role \in Roles :
           IF foreign_keys /\ cid \notin conversations
           THEN /\ messages' = messages
                /\ db_call' = [op |-> "add_message", id |-> cid, ok |-> FALSE]
           ELSE /\ messages' = Append(messages,
                                      [conversation_id |-> cid, role |-> role])
                /\ db_call' = [op |-> "add_message", id |-> cid, ok |-> TRUE]
    /\ UNCHANGED <<db_fixed, conversations, next_id>>

\* The messages table after the row of conversation cid is deleted with
\* the foreign key enforced: ON DELETE CASCADE.
Cascade(rows, cid) == SelectSeq(rows, LAMBDA m : m.conversation_id # cid)

\* delete_conversation: DELETE FROM conversations WHERE id = ?; no row
\* deleted raises ValueError; the messages go only when the foreign key
\* is enforced on the connection.
DeleteConversation ==
    /\ pc = "db"
    /\ \E cid \in ConversationIds :
           IF cid \notin conversations
           THEN /\ UNCHANGED <<conversations, messages>>
                /\ db_call' = [op |-> "delete_conversation", id |-> cid, ok |-> FALSE]
           ELSE /\ conversations' = conversations \ {cid}
                /\ messages' = IF foreign_keys THEN Cascade(messages, cid)
                               ELSE messages
                /\ db_call' = [op |-> "delete_conversation", id |-> cid, ok |-> TRUE]
    /\ UNCHANGED <<db_fixed, next_id>>

\* get_conversation(cid): the row, <<>> for None.
get_conversation(cid) == IF cid \in conversations THEN <<cid>> ELSE <<>>

\* get_messages(cid): the rows of the conversation, in insertion order.
get_messages(cid) == SelectSeq(messages, LAMBDA m : m.conversation_id = cid)

NextDb ==
    \/ CreateConversation
    \/ AddMessage
    \/ DeleteConversation

SpecDb == InitDb /\ [][NextDb]_vars

\* C29: when the last call is a delete_conversation(id) that succeeded,
\* get_conversation(id) returns None and get_messages(id) returns the
\* empty list.
C29_DeleteRemovesMessages ==
    (db_call.op = "delete_conversation" /\ db_call.ok) =>
        /\ get_conversation(db_call.id) = <<>>
        /\ get_messages(db_call.id) = <<>>

-----------------------------------------------------------------------------
(* Two generation sessions running concurrently in one event loop: each     *)
(* generate_with_thinking call creates its parser and keeps its own         *)
(* full_response; the loop switches between the sessions at their awaits.   *)

\* Deltas of the upstream response of each of the two sessions.
MaxPairDeltas == 2

SessionIds == {1, 2}

\* The deltas the responses of the two sessions are built from.
PairDeltas ==
    {[thinking |-> "", content |-> "<thinking>plan"],
     [thinking |-> "", content |-> "</thinking><answer>42</answer>"],
     [thinking |-> "hmm", content |-> "<answer>"]}

\* The responses of at most n of these deltas.
RECURSIVE PairResponses(_)
PairResponses(n) ==
    IF n = 0 THEN {<<>>}
    ELSE LET shorter == PairResponses(n - 1)
         IN  shorter \cup {Append(r, d) : r \in shorter, d \in PairDeltas}

\* parser = TagParser()
NewParser ==
    [state |-> "outside", buffer |-> "", current_content |-> "",
     has_yielded_answer |-> FALSE]

\* The parser q after a process_chunk call that left r.
ParserAfter(q, r) ==
    [state |-> r.state, buffer |-> r.buffer,
     current_content |-> IF r.visited # <<>> THEN "" ELSE q.current_content,
     has_yielded_answer |-> r.has_yielded_answer]

\* The dicts generate_with_thinking yields for the events evs of the
\* parser, with full the value of full_response; thinking events are
\* skipped when include is false.
Yields(evs, full, include) ==
    LET kept == SelectSeq(evs, LAMBDA e : ~(e.section = "thinking" /\ ~include))
    IN  [i \in 1..Len(kept) |->
            [section |-> kept[i].section, content |-> kept[i].content,
             full |-> full]]

\* The dicts yielded for the chunk dict c with the parser events evs.
YieldsOf(c, evs, full, include) ==
    IF c.type = "thinking"
    THEN (IF include
          THEN <<[section |-> "thinking", content |-> c.content, full |-> full]>>
          ELSE <<>>)
    ELSE Yields(evs, full \o c.content, include)

\* Two /chat or CLI sessions about to call generate_with_thinking.  Beside
\* each session runs the same session alone: alone_parser is a parser no
\* other session can reach and alone_sink the dicts yielded with it.
InitPair ==
    /\ Fresh(<<>>)
    /\ NoChat
    /\ NoClean
    /\ NoDb
    /\ pc = "pair"
    /\ parsers = <<>>
    /\ \E r1, r2 \in PairResponses(MaxPairDeltas), i1, i2 \in BOOLEAN :
           sessions =
               [s \in SessionIds |->
                   [pc |-> "start", parser |-> 0,
                    chunks |-> generate_stream(IF s = 1 THEN r1 ELSE r2, FALSE),
                    include |-> IF s = 1 THEN i1 ELSE i2,
                    chunk_no |-> 1, full_response |-> "", sink |-> <<>>,
                    thinking_content |-> "", answer_content |-> "",
                    alone_parser |-> NewParser, alone_sink |-> <<>>]]

pair_fixed == <<parser_side, chat_side, pc, raw_text, clean_text,
                conversations, messages, foreign_keys, next_id, db_call,
                api_keys, environ, conversation_id,
               api_key>>

\* BeginSession with one parser of the module shared by every session.
BeginSession_SharedParser ==
    \E s \in SessionIds :
        /\ sessions[s].pc = "start"
        /\ parsers' = IF parsers = <<>> THEN <<NewParser>> ELSE parsers
        /\ sessions' = [sessions EXCEPT ![s].pc = "stream", ![s].parser = 1]
        /\ UNCHANGED pair_fixed

\* generate_with_thinking up to its loop: full_response = "" and a parser
\* of its own.
BeginSession ==
    \E s \in SessionIds :
        /\ sessions[s].pc = "start"
        /\ parsers' = Append(parsers, NewParser)
        /\ sessions' = [sessions EXCEPT ![s].pc = "stream",
                                        ![s].parser = Len(parsers) + 1]
        /\ UNCHANGED pair_fixed

\* The session s and its parser after the chunk dict c, r being what
\* process_chunk left on the content of c, and the caller after the
\* dicts yielded; ra is what process_chunk left on the run alone.
SessionAfter(s, c, r, ra) ==
    /\ parsers' =
           IF c.type = "thinking" THEN parsers
           ELSE [parsers EXCEPT ![sessions[s].parser] =
                     ParserAfter(parsers[sessions[s].parser], r)]
    /\ sessions' =
           [sessions EXCEPT
               ![s].chunk_no = @ + 1,
               ![s].full_response =
                   IF c.type = "thinking" THEN @ ELSE @ \o c.content,
               ![s].sink =
                   @ \o YieldsOf(c, r.results, sessions[s].full_response,
                                 sessions[s].include),
               ![s].thinking_content =
                   @ \o Contents(OfSection(
                            YieldsOf(c, r.results, sessions[s].full_response,
                                     sessions[s].include), "thinking")),
               ![s].answer_content =
                   @ \o Contents(OfSection(
                            YieldsOf(c, r.results, sessions[s].full_response,
                                     sessions[s].include), "answer")),
               ![s].alone_parser =
                   IF c.type = "thinking" THEN @ ELSE ParserAfter(@, ra),
               ![s].alone_sink =
                   @ \o YieldsOf(c, ra.results, sessions[s].full_response,
                                 sessions[s].include)]

\* One iteration of the loop of generate_with_thinking in a session, with
\* the caller's loop body on the dicts it yields.
SessionChunk ==
    \E s \in SessionIds :
        /\ sessions[s].pc = "stream"
        /\ sessions[s].chunk_no <= Len(sessions[s].chunks)
        /\ SessionAfter(s, sessions[s].chunks[sessions[s].chunk_no],
                        process_chunk(parsers[sessions[s].parser].state,
                                      parsers[sessions[s].parser].buffer,
                                      parsers[sessions[s].parser].has_yielded_answer,
                                      sessions[s].chunks[sessions[s].chunk_no].content),
                        process_chunk(sessions[s].alone_parser.state,
                                      sessions[s].alone_parser.buffer,
                                      sessions[s].alone_parser.has_yielded_answer,
                                      sessions[s].chunks[sessions[s].chunk_no].content))
        /\ UNCHANGED pair_fixed

\* The session s after the events evs of the flush of its parser, eva
\* being those of the run alone.
SessionFlushed(s, evs, eva) ==
    /\ parsers' = [parsers EXCEPT ![sessions[s].parser] = NewParser]
    /\ sessions' =
           [sessions EXCEPT
               ![s].pc = "done",
               ![s].sink = @ \o evs,
               ![s].thinking_content = @ \o Contents(OfSection(evs, "thinking")),
               ![s].answer_content = @ \o Contents(OfSection(evs, "answer")),
               ![s].alone_parser = NewParser,
               ![s].alone_sink = @ \o eva]

\* flush of the parser q of a session, as generate_with_thinking yields it.
FlushOf(q, full, include) ==
    Yields(flush(q.state, q.buffer, q.current_content, q.has_yielded_answer),
           full, include)

\* The end of generate_with_thinking in a session: its parser is flushed.
SessionEnd ==
    \E s \in SessionIds :
        /\ sessions[s].pc = "stream"
        /\ sessions[s].chunk_no > Len(sessions[s].chunks)
        /\ SessionFlushed(s,
                          FlushOf(parsers[sessions[s].parser],
                                  sessions[s].full_response, sessions[s].include),
                          FlushOf(sessions[s].alone_parser,
                                  sessions[s].full_response, sessions[s].include))
        /\ UNCHANGED pair_fixed

NextPair ==
    \/ BeginSession
    \/ SessionChunk
    \/ SessionEnd

SpecPair == InitPair /\ [][NextPair]_vars

\* C24: whatever the interleaving of the two sessions, the dicts each has
\* yielded are those the same session yields when run alone with a parser
\* of its own, its parser is in the state of that parser, and its
\* accumulated texts are those of its own dicts.
C24_SessionsIsolated ==
    \A s \in SessionIds :
        /\ sessions[s].sink = sessions[s].alone_sink
        /\ sessions[s].pc = "stream" =>
               parsers[sessions[s].parser] = sessions[s].alone_parser
        /\ sessions[s].thinking_content =
               Contents(OfSection(sessions[s].sink, "thinking"))
        /\ sessions[s].answer_content =
               Contents(OfSection(sessions[s].sink, "answer"))

\* Both sessions are in mid-stream at once, each with chunks processed and
\* chunks to come, their parsers inside a section and in different states.
C24_Witness ==
    /\ pc = "pair"
    /\ \A s \in SessionIds :
           /\ sessions[s].pc = "stream"
           /\ sessions[s].chunk_no > 1
           /\ sessions[s].chunk_no <= Len(sessions[s].chunks)
           /\ sessions[s].sink # <<>>
    /\ parsers[sessions[1].parser].state = "in_thinking"
    /\ parsers[sessions[2].parser].state = "in_answer"

-----------------------------------------------------------------------------
(* The content of a closed section, the size of the buffer and the flag     *)
(* has_yielded_answer, for the parser of Spec.                              *)

\* The text after the opening tag open when the whole stream is open, a
\* text and the first closing tag of closers that follows, <<>> otherwise.
ClosedBody(open, closers) ==
    IF ~StartsWith(FullText, open) THEN <<>>
    ELSE LET hit == EarliestTag(Drop(FullText, Len(open)), closers)
         IN  IF hit.pos # -1
                /\ Len(open) + hit.pos + Len(hit.tag) = Len(FullText)
             THEN <<Take(Drop(FullText, Len(open)), hit.pos)>>
             ELSE <<>>

\* C36: when the stream is an opening tag, a text and its closing tag, and
\* every character has been delivered, under any chunking, the events of
\* the section concatenate to the text between the tags, character for
\* character, and no event of the other section was emitted.
C36_ClosedSectionExact ==
    idx > Len(source) =>
        /\ \A i \in 1..Len(THINKING_OPEN_VARIANTS) :
               ClosedBody(THINKING_OPEN_VARIANTS[i], THINKING_CLOSE_VARIANTS) # <<>> =>
                   /\ thinking_content =
                          ClosedBody(THINKING_OPEN_VARIANTS[i],
                                     THINKING_CLOSE_VARIANTS)[1]
                   /\ answer_content = ""
        /\ ClosedBody(ANSWER_OPEN, <<ANSWER_CLOSE>>) # <<>> =>
               /\ answer_content = ClosedBody(ANSWER_OPEN, <<ANSWER_CLOSE>>)[1]
               /\ thinking_content = ""

\* A closed thinking section whose text is a blank, delivered whole.
C36_Witness ==
    /\ idx > Len(source)
    /\ FullText = "<thinking> </thinking>"
    /\ thinking_content = " "
    /\ trace = <<"outside", "in_thinking", "outside">>

\* C38: between process_chunk calls the buffer holds at most 11 characters
\* in states outside and in_thinking and at most 9 in state in_answer.
C38_BufferBounded ==
    /\ state \in {"outside", "in_thinking"} => Len(buffer) <= 11
    /\ state = "in_answer" => Len(buffer) <= 9

\* A call in state outside cut its buffer down to 11 characters.
C38_Witness ==
    /\ flushes = 0
    /\ state = "outside"
    /\ cut > 0
    /\ Len(buffer) = 11
    /\ Len(Delivered) > 22

\* C39: between parser calls has_yielded_answer holds exactly when an
\* answer event was returned by process_chunk since the parser was created,
\* it is false after a flush, and a process_chunk call sets it exactly
\* when it returns an answer event.
C39_FlagTracksAnswerEvents ==
    /\ [](flushes = 0 => (has_yielded_answer <=> answer_content # ""))
    /\ [](flushes > 0 => ~has_yielded_answer)
    /\ [][flushes' = 0 =>
             has_yielded_answer' =
                 (has_yielded_answer \/ OfSection(returned', "answer") # <<>>)]_vars

\* Thinking events were emitted and no answer event: the flag is not set.
C39_Witness ==
    /\ flushes = 0
    /\ thinking_content # ""
    /\ answer_content = ""
    /\ ~has_yielded_answer
    /\ returned # <<>>

-----------------------------------------------------------------------------
(* Classification, native thinking text and persistence in a /chat         *)
(* request.                                                                 *)

\* C31: the query type of a request changes only in the one classification
\* step, which is never entered again; plan resolution comes after it, and
\* the resolved request has the query type the classifier gave, whatever
\* the overrides.
C31_ClassifiedOnce ==
    /\ [](Resolved => query_type = classify_query(outcome).value)
    /\ [](tier # "" => Resolved /\ query_type # "")
    /\ [][query_type' # query_type => (pc = "classify" /\ pc' = "classified")]_vars
    /\ [][pc' = "classify" => pc = "classify"]_vars

\* A request with both overrides, classified simple, served to its end.
C31_Witness ==
    /\ pc = "done"
    /\ request_model = <<"gpt-4o-mini">>
    /\ req_include_thinking = <<TRUE>>
    /\ request_mode = "pro"
    /\ query_type = "simple"
    /\ model = "gpt-4o-mini"

\* C34: no chunk event with section answer carries the text of a native
\* thinking delta of the upstream response.
C34_NativeThinkingNotAnswer ==
    \A i \in 1..Len(sse) :
        (sse[i].type = "chunk" /\ sse[i].section = "answer") =>
            \A d \in 1..Len(upstream) :
                upstream[d].thinking # "" => sse[i].content # upstream[d].thinking

\* TRUE when the validation event has been emitted.
Validated == \E i \in 1..Len(sse) : sse[i].type = "validation"

\* C37: messages are stored only once the validation event is emitted, the
\* user's message first, then the assistant's, each at most once; a stream
\* that ended with an error event and no validation event stored nothing.
C37_PersistAfterValidation ==
    /\ messages_saved # <<>> => Validated
    /\ Len(messages_saved) <= 2
    /\ Len(messages_saved) >= 1 => messages_saved[1].role = "user"
    /\ Len(messages_saved) = 2 => messages_saved[2].role = "assistant"
    /\ (sse # <<>> /\ sse[Len(sse)].type = "error" /\ ~Validated) =>
           messages_saved = <<>>

\* Both messages of a /chat session are stored, after its validation event.
C37_Witness ==
    /\ caller = "api"
    /\ Validated
    /\ Len(messages_saved) = 2
    /\ messages_saved[2].content # ""
    /\ pc = "done"

-----------------------------------------------------------------------------
(* The API-key table: set_api_key and get_api_key.                          *)

\* s.replace(old, new): every occurrence, left to right.
RECURSIVE Replace(_, _, _)
Replace(s, old, new) ==
    IF Find(s, old) = -1 THEN s
    ELSE Take(s, Find(s, old)) \o new
         \o Replace(Drop(s, Find(s, old) + Len(old)), old, new)

\* Model names without the provider prefix.
BaseNames == {"pro", "lab/gemini/pro"}

\* The names keys are stored under, and the names looked up.
KeyNames == BaseNames \cup {"gemini/" \o n : n \in BaseNames}
LookupNames == KeyNames \cup {"gemini/" \o n : n \in KeyNames}

\* The keys of the requests.
ApiKeyValues == {"key-1", "key-2"}

\* name in d, d[name] and d[name] = k for a dict held as its items.
DictHas(d, name) == \E i \in 1..Len(d) : d[i].name = name
DictGet(d, name) == d[CHOOSE i \in 1..Len(d) : d[i].name = name].key
DictSet(d, name, k) ==
    IF DictHas(d, name)
    THEN [i \in 1..Len(d) |-> IF d[i].name = name
                              THEN [name |-> name, key |-> k] ELSE d[i]]
    ELSE Append(d, [name |-> name, key |-> k])

\* get_api_key(model): <<>> for None.
get_api_key(q) ==
    IF DictHas(api_keys, q) THEN <<DictGet(api_keys, q)>>
    ELSE IF DictHas(api_keys, "gemini/" \o q)
    THEN <<DictGet(api_keys, "gemini/" \o q)>>
    ELSE IF StartsWith(q, "gemini/")
            /\ DictHas(api_keys, Replace(q, "gemini/", ""))
    THEN <<DictGet(api_keys, Replace(q, "gemini/", ""))>>
    ELSE <<>>

\* The process after start-up: no key is configured.
InitKeys ==
    /\ Fresh(<<>>)
    /\ NoChat
    /\ NoPair
    /\ NoClean
    /\ NoDb
    /\ pc = "keys"

keys_fixed == <<parser_side, caller, query_type, include_thinking,
                effective_use_thinking, upstream, fails, chunk_no, full_response,
                chat_full_response, sink, origin, parsed_thinking, sse,
                messages_saved, answer_to_store, memories, completion_calls,
                outcome, escaped, request_mode, request_model,
                req_include_thinking, tier, memory_searches, reading, parsers,
                sessions, raw_text, clean_text, conversations, messages,
                foreign_keys, next_id, db_call, environ, conversation_id>>

\* POST /config/api-key
set_api_key ==
    /\ \E name \in KeyNames, k \in ApiKeyValues :
           api_keys' = DictSet(api_keys, name, k)
    /\ pc' = "keys"
    /\ UNCHANGED <<keys_fixed, model, api_key>>

\* chat, step 3: api_key = get_api_key(model)
LookupKey ==
    /\ \E q \in LookupNames :
           /\ model' = q
           /\ api_key' = get_api_key(q)
    /\ pc' = "looked"
    /\ UNCHANGED <<keys_fixed, api_keys>>

NextKeys ==
    \/ set_api_key
    \/ LookupKey

SpecKeys == InitKeys /\ [][NextKeys]_vars

\* C33: once a lookup of model has returned, for every entry (m, k) of the
\* table the result is k when model is m, when m has no prefix and model is
\* "gemini/" + m, and when m has the prefix and model is m without it (in
\* the last two cases unless model has an entry of its own); the result is
\* None only when neither model, nor "gemini/" + model, nor model without
\* its prefix is configured.
C33_PrefixInsensitive ==
    pc = "looked" =>
        /\ \A i \in 1..Len(api_keys) :
              LET m == api_keys[i].name
                  k == api_keys[i].key
              IN  /\ model = m => api_key = <<k>>
                  /\ (~StartsWith(m, "gemini/") /\ model = "gemini/" \o m
                      /\ ~DictHas(api_keys, model)) => api_key = <<k>>
                  /\ (StartsWith(m, "gemini/") /\ model = Drop(m, 7)
                      /\ ~DictHas(api_keys, model)) => api_key = <<k>>
        /\ api_key = <<>> =>
              /\ ~DictHas(api_keys, model)
              /\ ~DictHas(api_keys, "gemini/" \o model)
              /\ StartsWith(model, "gemini/") => ~DictHas(api_keys, Drop(model, 7))

-----------------------------------------------------------------------------
(* The prologue of chat: conversation management and the API key checks.   *)

\* The database before the request: one conversation with one exchange.
ExistingConversations == {1}
ExistingMessages ==
    <<[conversation_id |-> 1, role |-> "user"],
      [conversation_id |-> 1, role |-> "assistant"]>>

\* The API-key tables of these requests.
AdmitTables ==
    {<<>>,
     <<[name |-> "gemini-3-flash-preview", key |-> "key-1"]>>,
     <<[name |-> "gpt-4o-mini", key |-> "key-2"]>>,
     <<[name |-> "gemini/gemini-3-pro-preview", key |-> "key-1"],
       [name |-> "gpt-4o-mini", key |-> "key-2"]>>}

\* A /chat request arrives: with no conversation id, with the id of the
\* stored conversation or with an id the database does not hold.
InitAdmit ==
    /\ Fresh(<<>>)
    /\ NoPair
    /\ NoClean
    /\ caller = "api"
    /\ request_mode \in Modes
    /\ request_model \in {<<>>, <<"gpt-4o-mini">>}
    /\ req_include_thinking = <<>>
    /\ outcome \in RequestOutcomes
    /\ upstream = <<>>
    /\ fails = FALSE
    /\ pc = "admit"
    /\ query_type = ""
    /\ escaped = FALSE
    /\ include_thinking = FALSE
    /\ effective_use_thinking = FALSE
    /\ tier = ""
    /\ model = ""
    /\ memory_searches = 0
    /\ reading = TRUE
    /\ api_keys \in AdmitTables
    /\ environ = [OPENAI_API_KEY |-> "", ANTHROPIC_API_KEY |-> "",
                  GOOGLE_API_KEY |-> ""]
    /\ conversation_id \in {0, 1, 2}
    /\ api_key = <<>>
    /\ chunk_no = 1
    /\ full_response = ""
    /\ chat_full_response = ""
    /\ sink = <<>>
    /\ origin = <<>>
    /\ parsed_thinking = ""
    /\ sse = <<>>
    /\ messages_saved = <<>>
    /\ answer_to_store = ""
    /\ memories = <<>>
    /\ completion_calls = 0
    /\ conversations = ExistingConversations
    /\ messages = ExistingMessages
    /\ foreign_keys \in BOOLEAN
    /\ next_id = 1
    /\ db_call = [op |-> "none", id |-> 0, ok |-> TRUE]

admit_fixed == <<parser_side, caller, query_type, effective_use_thinking,
                 upstream, fails, chunk_no, full_response, chat_full_response,
                 sink, origin, parsed_thinking, sse, messages_saved,
                 answer_to_store, memories, completion_calls, outcome, escaped,
                 request_mode, request_model, req_include_thinking,
                 memory_searches, reading, parsers, sessions, raw_text,
                 clean_text, messages, foreign_keys, api_keys, environ>>

\* chat, conversation management: without an id a conversation is created,
\* an id the database does not hold is answered 404.
ManageConversation ==
    /\ pc = "admit"
    /\ IF conversation_id = 0
       THEN /\ next_id' = next_id + 1
            /\ conversations' = conversations \cup {next_id + 1}
            /\ conversation_id' = next_id + 1
            /\ db_call' = [op |-> "create_conversation", id |-> next_id + 1,
                           ok |-> TRUE]
            /\ pc' = "keys"
       ELSE /\ pc' = IF get_conversation(conversation_id) = <<>>
                     THEN "rejected404" ELSE "keys"
            /\ UNCHANGED <<next_id, conversations, conversation_id, db_call>>
    /\ UNCHANGED <<admit_fixed, tier, model, include_thinking, api_key>>

\* chat, the key checks before step 1: with an empty table the request is
\* answered 401; otherwise the router has the key of its model or the
\* first key of the table.
CheckKeys ==
    /\ pc = "keys"
    /\ pc' = IF api_keys = <<>> THEN "rejected401" ELSE "classify"
    /\ UNCHANGED <<admit_fixed, tier, model, include_thinking, api_key,
                   next_id, conversations, conversation_id, db_call>>

\* chat, steps 2 and 3: the model of the plan and its key; without a key
\* the request is answered 401.
ResolveKey ==
    /\ pc = "classified"
    /\ tier' = BaseTier(request_mode, query_type)
    /\ model' = ResolveModel(request_model,
                             MODEL_TIERS[BaseTier(request_mode, query_type)])
    /\ include_thinking' =
           IncludeThinking(req_include_thinking, request_mode, query_type)
    /\ api_key' = get_api_key(ResolveModel(request_model,
                             MODEL_TIERS[BaseTier(request_mode, query_type)]))
    /\ pc' = IF get_api_key(ResolveModel(request_model,
                             MODEL_TIERS[BaseTier(request_mode, query_type)])) = <<>>
             THEN "rejected401" ELSE "admitted"
    /\ UNCHANGED <<admit_fixed, next_id, conversations, conversation_id, db_call>>

NextAdmit ==
    \/ ManageConversation
    \/ CheckKeys
    \/ Classify
    \/ ResolveKey

SpecAdmit == InitAdmit /\ [][NextAdmit]_vars

\* C35: a request answered 401 or 404 leaves the database as it was before
\* the request: the conversations and the messages are those stored before.
C35_RejectedLeavesState ==
    pc \in {"rejected401", "rejected404"} =>
        /\ conversations = ExistingConversations
        /\ messages = ExistingMessages

-----------------------------------------------------------------------------
(* The credentials of generate_stream in two concurrent sessions.          *)

\* The models of the two sessions.
SessionModels ==
    {"gemini/gemini-3-flash-preview", "gemini/gemini-3-pro-preview",
     "gpt-4o-mini"}

\* The environment variable generate_stream stores the key of model in,
\* "" when it stores none.
EnvVar(name) ==
    IF Find(Lower(name), "gpt") # -1 \/ Find(Lower(name), "o1") # -1
    THEN "OPENAI_API_KEY"
    ELSE IF Find(Lower(name), "claude") # -1 THEN "ANTHROPIC_API_KEY"
    ELSE IF Find(Lower(name), "gemini") # -1 THEN "GOOGLE_API_KEY"
    ELSE ""

\* os.environ[var] = k
SetEnv(env, var, k) ==
    IF var = "" THEN env ELSE [env EXCEPT ![var] = k]

\* Two sessions are past step 3 of chat, each with the key resolved for it:
\* key-1 for the first, key-2 for the second.
InitCreds ==
    /\ Fresh(<<>>)
    /\ NoChat
    /\ NoClean
    /\ NoDb
    /\ parsers = <<>>
    /\ pc = "creds"
    /\ \E m1 \in SessionModels, m2 \in SessionModels :
           sessions = [s \in SessionIds |->
                          [pc |-> "generate",
                           model |-> IF s = 1 THEN m1 ELSE m2,
                           api_key |-> IF s = 1 THEN "key-1" ELSE "key-2",
                           used_key |-> ""]]

creds_fixed == <<parser_side, chat_side, pc, parsers, raw_text, clean_text,
                 conversations, messages, foreign_keys, next_id, db_call,
                 api_keys, conversation_id, api_key>>

\* generate_stream up to the litellm.acompletion call: the key goes to the
\* environment of the process and the call is made without it.  The
\* library reads the variable either before the coroutine is first
\* suspended or after it.
BeginCompletion ==
    \E s \in SessionIds :
        /\ sessions[s].pc = "generate"
        /\ environ' = SetEnv(environ, EnvVar(sessions[s].model),
                             sessions[s].api_key)
        /\ \/ sessions' = [sessions EXCEPT ![s].pc = "streaming",
                                           ![s].used_key = sessions[s].api_key]
           \/ sessions' = [sessions EXCEPT ![s].pc = "pending"]
        /\ UNCHANGED creds_fixed

\* The library reads the key of the provider from the environment.
LibraryReadsKey ==
    \E s \in SessionIds :
        /\ sessions[s].pc = "pending"
        /\ sessions' = [sessions EXCEPT ![s].pc = "streaming",
                                        ![s].used_key =
                                            environ[EnvVar(sessions[s].model)]]
        /\ UNCHANGED <<creds_fixed, environ>>

\* The response of the session is exhausted.
EndCompletion ==
    \E s \in SessionIds :
        /\ sessions[s].pc = "streaming"
        /\ sessions' = [sessions EXCEPT ![s].pc = "done"]
        /\ UNCHANGED <<creds_fixed, environ>>

NextCreds ==
    \/ BeginCompletion
    \/ LibraryReadsKey
    \/ EndCompletion

SpecCreds == InitCreds /\ [][NextCreds]_vars

\* C32: the upstream call of each session is made with the key resolved for
\* that session, and a session's step changes no state another session
\* reads: the key variable of a provider is not overwritten while a session
\* that has stored its key there has its call pending.
C32_OwnKeyUsed ==
    \A s \in SessionIds :
        /\ sessions[s].pc \in {"streaming", "done"} =>
               sessions[s].used_key = sessions[s].api_key
        /\ sessions[s].pc = "pending" =>
               environ[EnvVar(sessions[s].model)] = sessions[s].api_key

====
